---- MODULE Spec2Model ----
(***************************************************************************)
(* A state-machine model of the rule manager: the caching template         *)
(* provider, the two rule stores (MongoDB and the local file store), the   *)
(* plan resolver of the rules service and the rule handlers of the API.    *)
(*                                                                         *)
(* JSON values are tagged records, so that values of different JSON types  *)
(* are never confused: [str |-> s], [num |-> n], [obj |-> f] (f a record   *)
(* from keys to values), [arr |-> q] (q a sequence) and [nil |-> TRUE]     *)
(* (Go's nil interface value).  A dot path such as "target.namespace" is   *)
(* the sequence of its parts, <<"target", "namespace">>.                   *)
(***************************************************************************)
EXTENDS Naturals, Sequences, FiniteSets, TLC

VARIABLES
    storeKind,      \* which RuleStore main() constructed: "mongo" or "file"
    rules,          \* the rule store: the persisted records, in creation order
    nextId,         \* the next identifier primitive.NewObjectID() hands out
    clock,          \* time.Now(), as a logical clock
    repoSchemas,    \* the wrapped TemplateProvider: name -> schema or NotFound
    repoTemplates,  \* the wrapped TemplateProvider: name -> template body or NotFound
    schemas,        \* CachingTemplateProvider.schemas (sync.Map)
    templates,      \* CachingTemplateProvider.templates (sync.Map)
    pc,             \* per request goroutine: its position in a provider call
    call,           \* per request goroutine: the provider call it is in
    last,           \* the response of the last rule request
    history         \* the provider calls that have returned, in order of return

vars == <<storeKind, rules, nextId, clock, repoSchemas, repoTemplates,
          schemas, templates, pc, call, last, history>>

ruleVars == <<storeKind, rules, nextId, clock, last>>
procVars == <<pc, call, history>>

----------------------------------------------------------------------------
(* Bounds of the model.                                                    *)

\* A run serves its requests at the times 1 .. MaxClock - 1, one request at
\* each; the runs of the caching provider make at most MaxCalls provider calls.
MaxClock == 4
MaxCalls == 3

----------------------------------------------------------------------------
(* JSON values.                                                            *)

Str(s) == [str |-> s]
Num(n) == [num |-> n]
Obj(f) == [obj |-> f]
Arr(q) == [arr |-> q]
Nil == [nil |-> TRUE]

IsStr(v) == DOMAIN v = {"str"}
IsNum(v) == DOMAIN v = {"num"}
IsObj(v) == DOMAIN v = {"obj"}
IsArr(v) == DOMAIN v = {"arr"}
IsNil(v) == DOMAIN v = {"nil"}

\* v[part] on a Go map[string]interface{}: the value, or nil for a missing key.
Index(m, part) == IF part \in DOMAIN m.obj THEN m.obj[part] ELSE Nil

Has(m, part) == IsObj(m) /\ part \in DOMAIN m.obj

NotFound == [notFound |-> TRUE]
NotCached == [notCached |-> TRUE]

----------------------------------------------------------------------------
(* The names, schemas and render templates the template repository holds.  *)
(* A schema is the part of the JSON schema document the service decodes:   *)
(* "required" (what gojsonschema enforces here), "uniqueness_keys",        *)
(* "datasource", the global "pipelines" and, per rule type, the pipelines  *)
(* of properties.rules.items.oneOf.  A render template is its parse        *)
(* outcome, its literal text and the field chains it prints.               *)

Names == {"k8s", "vm"}

NoCondition == [none |-> TRUE]
NoDatasource == [none |-> TRUE]

MetricStep(name, cond, metric) ==
    [name |-> name, type |-> "validate_metric_exists", condition |-> cond,
     metric_name |-> metric]

Schema(req, keys, ds, pipes, oneOf) ==
    [required |-> req, uniqueness_keys |-> keys, datasource |-> ds,
     pipelines |-> pipes, oneOf |-> oneOf]

Prometheus == [type |-> "prometheus"]

\* {"type": "object", "required": ["target", "rules"]}: default uniqueness.
SchemaDefault == Schema({"target", "rules"}, <<>>, NoDatasource, <<>>, <<>>)

\* "uniqueness_keys": ["target.namespace"]
SchemaNamespace ==
    Schema({"target", "rules"}, <<(<<"target", "namespace">>)>>, NoDatasource, <<>>, <<>>)

\* "required": ["target", "rules", "common"], "uniqueness_keys": ["target"]
SchemaTarget ==
    Schema({"target", "rules", "common"}, <<(<<"target">>)>>, NoDatasource, <<>>, <<>>)

\* A schema with a global pipeline step (metric "up" must exist) and, for rule
\* type "ram", an item pipeline step (the metric {{ .target.metric }} must exist).
SchemaPipeline ==
    Schema({"target", "rules"}, <<(<<"target", "namespace">>)>>, Prometheus,
           <<MetricStep("check_up", NoCondition, [lit |-> "up"])>>,
           <<[const |-> "ram",
              pipelines |-> <<MetricStep("check_ram", NoCondition,
                                         [path |-> <<"target", "metric">>])>>]>>)

\* "uniqueness_keys": ["target.namespace", "common.severity"]
SchemaSeverity ==
    Schema({"target", "rules"},
           <<(<<"target", "namespace">>), (<<"common", "severity">>)>>,
           NoDatasource, <<>>, <<>>)

\* "properties": {"rules": {"items": {"required": ["rule_type", "threshold"]}}}
SchemaItems ==
    [required |-> {"target", "rules"}, uniqueness_keys |-> <<>>, datasource |-> NoDatasource,
     pipelines |-> <<>>, oneOf |-> <<>>, itemRequired |-> {"rule_type", "threshold"}]

SchemaSet ==
    {SchemaDefault, SchemaNamespace, SchemaTarget, SchemaPipeline, SchemaSeverity}

Template(text, parse, refs) == [text |-> text, parse |-> parse, refs |-> refs]

\* alert: ... {{ .target.namespace }}
TemplateNamespace == Template("alert", TRUE, <<(<<"target", "namespace">>)>>)
\* {{ .common.severity }}: fails at execution when "common" is absent.
TemplateSeverity == Template("alert", TRUE, <<(<<"common", "severity">>)>>)
\* a body text/template cannot parse
TemplateBroken == Template("alert {{", FALSE, <<>>)

TemplateSet == {TemplateNamespace, TemplateSeverity, TemplateBroken}

\* The series the metrics backend holds (the instant query count({__name__="m"})
\* returns a non-empty vector exactly for these).
Series == {"up", "cpu_seconds"}

----------------------------------------------------------------------------
(* Parameter validation and rendering.                                     *)

\* A validator that accepts every document.
ValidateAnything(schema, doc) == TRUE

\* gojsonschema.Validate for the schemas above: every required property is
\* present in the (object) document and, when the schema constrains the items
\* of "rules" (properties.rules.items.required), every item is an object with
\* the properties required of it.
Validate(schema, doc) ==
    /\ IsObj(doc)
    /\ schema.required \subseteq DOMAIN doc.obj
    /\ "itemRequired" \in DOMAIN schema =>
          /\ Has(doc, "rules") /\ IsArr(doc.obj["rules"])
          /\ \A i \in 1..Len(doc.obj["rules"].arr) :
                /\ IsObj(doc.obj["rules"].arr[i])
                /\ schema.itemRequired \subseteq DOMAIN doc.obj["rules"].arr[i].obj

\* fmt.Sprintf("%v", val) / the text a template prints for a value.
FmtV(v) ==
    IF IsStr(v) THEN v.str
    ELSE IF IsNum(v) THEN ToString(v.num)
    ELSE IF IsNil(v) THEN "<no value>"
    ELSE IF IsObj(v) THEN "map[...]"
    ELSE "[...]"

\* text/template evaluating the field chain .a.b.c on the decoded parameters:
\* a missing map key yields no value; a further field of a non-map is an
\* execution error.
RECURSIVE EvalChain(_, _, _)
EvalChain(cur, path, i) ==
    IF i > Len(path) THEN [err |-> FALSE, val |-> cur]
    ELSE IF IsObj(cur) THEN EvalChain(Index(cur, path[i]), path, i + 1)
    ELSE [err |-> TRUE, val |-> Nil]

\* A renderer that stamps its output with the time of the call.
renderTemplateStamped(tmpl, parameters) ==
    IF ~tmpl.parse THEN [err |-> "parse", out |-> <<>>]
    ELSE [err |-> "none", out |-> <<tmpl.text, ToString(Len(history))>>]

\* Service.renderTemplate: parse, decode, execute.
renderTemplate(tmpl, parameters) ==
    IF ~tmpl.parse THEN [err |-> "parse", out |-> <<>>]
    ELSE IF \E i \in 1..Len(tmpl.refs) : EvalChain(parameters, tmpl.refs[i], 1).err
         THEN [err |-> "exec", out |-> <<>>]
    ELSE [err |-> "none",
          out |-> <<tmpl.text>> \o
                  [i \in 1..Len(tmpl.refs) |-> FmtV(EvalChain(parameters, tmpl.refs[i], 1).val)]]

\* CachingTemplateProvider.GetSchema / GetTemplate as one call of a request that
\* overlaps no other: the cached value on a hit, the provider's on a miss.
GetSchema(name) ==
    IF name \notin Names THEN NotFound
    ELSE IF schemas[name] # NotCached THEN schemas[name]
    ELSE repoSchemas[name]

GetTemplate(name) ==
    IF name \notin Names THEN NotFound
    ELSE IF templates[name] # NotCached THEN templates[name]
    ELSE repoTemplates[name]

\* A generator that reports every failure after validation as the same error.
GenerateRuleOpaque(templateName, parameters) ==
    LET schemaStr == GetSchema(templateName)
        tmplStr == GetTemplate(templateName)
    IN  IF schemaStr = NotFound THEN [err |-> "schema not found", out |-> <<>>]
        ELSE IF ~Validate(schemaStr, parameters) THEN [err |-> "validation", out |-> <<>>]
        ELSE IF tmplStr = NotFound THEN [err |-> "generation failed", out |-> <<>>]
        ELSE LET r == renderTemplate(tmplStr, parameters)
             IN  IF r.err = "none" THEN r ELSE [err |-> "generation failed", out |-> <<>>]

\* Service.GenerateRule: schema lookup, validation, template lookup, render.
GenerateRule(templateName, parameters) ==
    LET schemaStr == GetSchema(templateName)
        tmplStr == GetTemplate(templateName)
    IN  IF schemaStr = NotFound THEN [err |-> "schema not found", out |-> <<>>]
        ELSE IF ~Validate(schemaStr, parameters) THEN [err |-> "validation", out |-> <<>>]
        ELSE IF tmplStr = NotFound THEN [err |-> "template not found", out |-> <<>>]
        ELSE renderTemplate(tmplStr, parameters)

----------------------------------------------------------------------------
(* The pipeline processor.                                                 *)

\* A condition that also holds when the named property is absent.
evaluateConditionAbsentHolds(condition, ruleParams) ==
    IF ~IsObj(ruleParams) THEN FALSE
    ELSE IF condition.property \notin DOMAIN ruleParams.obj THEN TRUE
    ELSE ruleParams.obj[condition.property] = condition.value

\* PipelineProcessor.evaluateCondition: the named top-level property must be
\* present and equal, by type, to the condition's value.
evaluateCondition(condition, ruleParams) ==
    IF ~IsObj(ruleParams) THEN FALSE
    ELSE IF condition.property \notin DOMAIN ruleParams.obj THEN FALSE
    ELSE LET val == ruleParams.obj[condition.property]
         IN  IF IsStr(condition.value) THEN IsStr(val) /\ val.str = condition.value.str
             ELSE IF IsNum(condition.value) THEN IsNum(val) /\ val.num = condition.value.num
             ELSE FALSE

\* renderString on a metric_name template: a literal, or one field chain.
renderString(tmplStr, data) ==
    IF "lit" \in DOMAIN tmplStr THEN [err |-> FALSE, val |-> tmplStr.lit]
    ELSE LET r == EvalChain(data, tmplStr.path, 1)
         IN  [err |-> r.err, val |-> FmtV(r.val)]

StepResult(err, metric) == [err |-> err, metric |-> metric]

\* A runner that accepts whatever the datasource answers.
RunValidateMetricExistsLenient(datasource, ruleParams, step) ==
    IF datasource = NoDatasource THEN StepResult("datasource configuration is required", "")
    ELSE LET m == renderString(step.metric_name, ruleParams)
         IN  IF m.err THEN StepResult("failed to render metric_name", "")
             ELSE StepResult("", "")

\* ValidateMetricExistsRunner.Run: the error ("" on success) and, for the
\* error "metric '<name>' not found", the metric name it carries.
RunValidateMetricExists(datasource, ruleParams, step) ==
    IF datasource = NoDatasource THEN StepResult("datasource configuration is required", "")
    ELSE IF datasource.type \notin {"prometheus", "victoriametrics", "thanos"}
         THEN StepResult("unsupported datasource type", "")
    ELSE LET m == renderString(step.metric_name, ruleParams)
         IN  IF m.err THEN StepResult("failed to render metric_name", "")
             ELSE IF m.val \notin Series THEN StepResult("metric not found", m.val)
             ELSE StepResult("", "")

Outcome(err, step, metric, ran) ==
    [err |-> err, step |-> step, metric |-> metric, ran |-> ran]

\* A processor that goes on with the later steps after a failure and reports
\* the first failure at the end.
RECURSIVE ExecuteContinuing(_, _, _, _)
ExecuteContinuing(schemaPipelines, datasource, ruleParams, i) ==
    IF i > Len(schemaPipelines) THEN Outcome("", "", "", <<>>)
    ELSE LET step == schemaPipelines[i]
             r == ExecuteContinuing(schemaPipelines, datasource, ruleParams, i + 1)
         IN  IF step.condition # NoCondition /\ ~evaluateCondition(step.condition, ruleParams)
             THEN r
             ELSE LET e == RunValidateMetricExists(datasource, ruleParams, step)
                  IN  IF e.err # "" THEN Outcome(e.err, step.name, e.metric, <<step.name>> \o r.ran)
                      ELSE [r EXCEPT !.ran = <<step.name>> \o @]

\* PipelineProcessor.Execute from step i on: the steps run in order and the
\* first failure is returned, attributed to its step ("pipeline step '<name>'
\* failed: <error>").  `ran` lists the steps whose runner was called.
RECURSIVE Execute(_, _, _, _)
Execute(schemaPipelines, datasource, ruleParams, i) ==
    IF i > Len(schemaPipelines) THEN Outcome("", "", "", <<>>)
    ELSE LET step == schemaPipelines[i]
         IN  IF step.condition # NoCondition /\ ~evaluateCondition(step.condition, ruleParams)
             THEN Execute(schemaPipelines, datasource, ruleParams, i + 1)
             ELSE IF step.type \notin {"validate_metric_exists", "dummy_always_pass"}
             THEN Outcome("unknown pipeline step type", step.name, "", <<>>)
             ELSE LET e == IF step.type = "dummy_always_pass" THEN StepResult("", "")
                           ELSE RunValidateMetricExists(datasource, ruleParams, step)
                  IN  IF e.err # "" THEN Outcome(e.err, step.name, e.metric, <<step.name>>)
                      ELSE LET r == Execute(schemaPipelines, datasource, ruleParams, i + 1)
                           IN  [r EXCEPT !.ran = <<step.name>> \o @]

\* The pipelines the schema declares for a rule type (the last oneOf option
\* with that const and a non-empty pipeline list).
RECURSIVE rulePipelines(_, _, _)
rulePipelines(oneOf, ruleType, i) ==
    IF i = 0 THEN <<>>
    ELSE IF oneOf[i].const = ruleType /\ oneOf[i].const # "" /\ Len(oneOf[i].pipelines) > 0
         THEN oneOf[i].pipelines
         ELSE rulePipelines(oneOf, ruleType, i - 1)

\* A merged view in which a shared field hides the item's field of that name.
MergedParamsRootWins(parameters, rule) ==
    Obj([k \in DOMAIN parameters.obj \cup DOMAIN rule.obj |->
            IF k \in DOMAIN parameters.obj THEN parameters.obj[k] ELSE rule.obj[k]])

\* The merged view of an item pipeline: the item's fields laid over the root's.
MergedParams(parameters, rule) ==
    Obj([k \in DOMAIN parameters.obj \cup DOMAIN rule.obj |->
            IF k \in DOMAIN rule.obj THEN rule.obj[k] ELSE parameters.obj[k]])

\* The per-rule loop of Service.ValidateRule from item i on.
RECURSIVE ValidateItems(_, _, _, _)
ValidateItems(schema, parameters, items, i) ==
    IF i > Len(items) THEN [err |-> "", step |-> ""]
    ELSE LET rule == items[i]
             ruleType == IF IsObj(rule) /\ Has(rule, "rule_type") /\ IsStr(rule.obj["rule_type"])
                         THEN rule.obj["rule_type"].str ELSE ""
             pipelines == rulePipelines(schema.oneOf, ruleType, Len(schema.oneOf))
         IN  IF ruleType = "" \/ Len(pipelines) = 0
             THEN ValidateItems(schema, parameters, items, i + 1)
             ELSE LET r == Execute(pipelines, schema.datasource,
                                   MergedParams(parameters, rule), 1)
                  IN  IF r.err # "" THEN r
                      ELSE ValidateItems(schema, parameters, items, i + 1)

\* Service.ValidateRule: schema validation, the global pipelines, then the
\* pipelines of every item of "rules".
ValidateRule(templateName, parameters) ==
    LET schema == GetSchema(templateName)
    IN  IF schema = NotFound THEN [err |-> "schema not found", step |-> ""]
        ELSE IF ~Validate(schema, parameters) THEN [err |-> "validation", step |-> ""]
        ELSE LET g == Execute(schema.pipelines, schema.datasource, parameters, 1)
             IN  IF g.err # "" THEN g
                 ELSE IF Has(parameters, "rules") /\ IsArr(parameters.obj["rules"])
                      THEN ValidateItems(schema, parameters, parameters.obj["rules"].arr, 1)
                      ELSE [err |-> "", step |-> ""]

----------------------------------------------------------------------------
(* The rule stores.  A record is [id, templateName, parameters, createdAt, *)
(* updatedAt]; the zero time.Time is 0.  `store` is the sequence of the    *)
(* persisted records in creation order (MongoDB's natural order; the file  *)
(* store's directory order, object ids being increasing).                  *)

NoRule == [none |-> TRUE]

Rule(id, templateName, parameters, createdAt, updatedAt) ==
    [id |-> id, templateName |-> templateName, parameters |-> parameters,
     createdAt |-> createdAt, updatedAt |-> updatedAt]

Ids(store) == {store[i].id : i \in 1..Len(store)}

\* RuleStore.GetRule
GetRule(store, id) ==
    IF id \in Ids(store) THEN (CHOOSE r \in {store[i] : i \in 1..Len(store)} : r.id = id)
    ELSE NotFound

\* FileStore.checkNestedValue: walk the keys through nested maps only; the
\* last value is compared by its %v text.
RECURSIVE checkNestedValue(_, _, _, _)
checkNestedValue(current, keys, i, expectedValue) ==
    IF i > Len(keys) THEN FALSE
    ELSE IF keys[i] \notin DOMAIN current.obj THEN FALSE
    ELSE LET val == current.obj[keys[i]]
         IN  IF i = Len(keys) THEN FmtV(val) = expectedValue
             ELSE IF IsObj(val) THEN checkNestedValue(val, keys, i + 1, expectedValue)
             ELSE FALSE

\* A filter match that ignores the template name.
matchesFilterAnyTemplate(rule, filter) ==
    \A key \in DOMAIN filter.Parameters :
       /\ IsObj(rule.parameters)
       /\ checkNestedValue(rule.parameters, key, 1, filter.Parameters[key])

\* FileStore.matchesFilter
matchesFilter(rule, filter) ==
    /\ (filter.TemplateName # "" => rule.templateName = filter.TemplateName)
    /\ \A key \in DOMAIN filter.Parameters :
          /\ IsObj(rule.parameters)
          /\ checkNestedValue(rule.parameters, key, 1, filter.Parameters[key])

\* The BSON document MongoStore keeps for a rule (toMongoRule): the parameter
\* document is the value of its "parameters" field.
toMongoRule(rule) ==
    Obj([_id |-> Num(rule.id), templateName |-> Str(rule.templateName),
         parameters |-> rule.parameters,
         createdAt |-> Num(rule.createdAt), updatedAt |-> Num(rule.updatedAt)])

\* MongoDB's equality match {path: value} on a document: the path is resolved
\* from the document root, through embedded documents and the elements of
\* arrays; the field matches when it is the value or an array holding it.
RECURSIVE MongoMatch(_, _, _, _)
MongoMatch(v, path, i, value) ==
    IF i > Len(path)
    THEN \/ v = Str(value)
         \/ IsArr(v) /\ \E j \in 1..Len(v.arr) : v.arr[j] = Str(value)
    ELSE IF IsObj(v)
         THEN path[i] \in DOMAIN v.obj /\ MongoMatch(v.obj[path[i]], path, i + 1, value)
    ELSE IF IsArr(v)
         THEN \E j \in 1..Len(v.arr) : IsObj(v.arr[j]) /\ MongoMatch(v.arr[j], path, i, value)
    ELSE FALSE

\* The query MongoStore.SearchRules builds: the filter keys are used exactly
\* as provided, as field paths of the stored document.
MongoQueryMatches(rule, filter) ==
    /\ (filter.TemplateName # "" => rule.templateName = filter.TemplateName)
    /\ \A key \in DOMAIN filter.Parameters :
          MongoMatch(toMongoRule(rule), key, 1, filter.Parameters[key])

\* RuleStore.SearchRules of the store in use: the matching records, in order.
SearchRules(kind, store, filter) ==
    SelectSeq(store, LAMBDA r : IF kind = "mongo" THEN MongoQueryMatches(r, filter)
                                ELSE matchesFilter(r, filter))

\* RuleStore.CreateRule: MongoStore fills in a missing id and creation time and
\* stamps the update time; FileStore writes the record as given.  Both refuse
\* an id already stored.
StoreCreateRule(kind, store, rule, now) ==
    IF rule.id \in Ids(store) THEN [err |-> "rule already exists", store |-> store]
    ELSE IF kind = "mongo"
    THEN [err |-> "",
          store |-> Append(store, [rule EXCEPT !.createdAt = IF @ = 0 THEN now ELSE @,
                                               !.updatedAt = now])]
    ELSE [err |-> "", store |-> Append(store, rule)]

\* RuleStore.UpdateRule: MongoStore sets templateName, parameters and updatedAt
\* of the stored document; FileStore replaces the stored record by the given
\* one, under the given id.
StoreUpdateRule(kind, store, id, rule, now) ==
    IF id \notin Ids(store) THEN [err |-> "rule not found", store |-> store]
    ELSE [err |-> "",
          store |-> [i \in 1..Len(store) |->
                       IF store[i].id # id THEN store[i]
                       ELSE IF kind = "mongo"
                       THEN [store[i] EXCEPT !.templateName = rule.templateName,
                                             !.parameters = rule.parameters,
                                             !.updatedAt = now]
                       ELSE [rule EXCEPT !.id = id]]]

\* RuleStore.DeleteRule
StoreDeleteRule(store, id) ==
    IF id \notin Ids(store) THEN [err |-> "rule not found", store |-> store]
    ELSE [err |-> "", store |-> SelectSeq(store, LAMBDA r : r.id # id)]

----------------------------------------------------------------------------
(* The plan resolver.                                                      *)

\* getValueByPath: walk the parts; in an array continue in its first element;
\* only a string at the end is a value.
RECURSIVE getValueByPath(_, _, _)
getValueByPath(current, parts, i) ==
    IF i > Len(parts)
    THEN IF IsStr(current) THEN [val |-> current.str, found |-> TRUE]
         ELSE [val |-> "", found |-> FALSE]
    ELSE IF IsObj(current) THEN getValueByPath(Index(current, parts[i]), parts, i + 1)
    ELSE IF IsArr(current)
         THEN IF Len(current.arr) = 0 THEN [val |-> "", found |-> FALSE]
              ELSE IF IsObj(current.arr[1])
                   THEN getValueByPath(Index(current.arr[1], parts[i]), parts, i + 1)
                   ELSE [val |-> "", found |-> FALSE]
    ELSE [val |-> "", found |-> FALSE]

Put(f, k, v) == [x \in DOMAIN f \cup {k} |-> IF x = k THEN v ELSE f[x]]

\* The empty map[string]string.
EmptyParameters == [x \in {} |-> ""]

\* The entries the literal key "target" expands to: one per string-valued
\* field of the target object.
TargetEntries(acc, paramsMap) ==
    IF Has(paramsMap, "target") /\ IsObj(paramsMap.obj["target"])
    THEN LET target == paramsMap.obj["target"].obj
             strKeys == {k \in DOMAIN target : IsStr(target[k])}
         IN  [x \in DOMAIN acc \cup {<<"target", k>> : k \in strKeys} |->
                 IF Len(x) = 2 /\ x[1] = "target" /\ x[2] \in strKeys
                 THEN target[x[2]].str ELSE acc[x]]
    ELSE acc

\* The filter-construction loop of PlanRuleCreation / PlanRuleUpdate.
RECURSIVE BuildFilter(_, _, _, _)
BuildFilter(uniquenessKeys, paramsMap, i, acc) ==
    IF i > Len(uniquenessKeys) THEN acc
    ELSE LET key == uniquenessKeys[i]
         IN  IF key = <<"target">>
             THEN BuildFilter(uniquenessKeys, paramsMap, i + 1, TargetEntries(acc, paramsMap))
             ELSE LET r == getValueByPath(paramsMap, key, 1)
                  IN  IF r.found /\ r.val # ""
                      THEN BuildFilter(uniquenessKeys, paramsMap, i + 1, Put(acc, key, r.val))
                      ELSE BuildFilter(uniquenessKeys, paramsMap, i + 1, acc)

\* Uniqueness keys cut down to the first one.
UniquenessKeysFirst(schema) ==
    IF Len(schema.uniqueness_keys) = 0
    THEN <<(<<"target">>), (<<"rules", "rule_type">>)>>
    ELSE <<schema.uniqueness_keys[1]>>

\* The uniqueness keys of a schema, with the fallback to target + rule_type.
UniquenessKeys(schema) ==
    IF Len(schema.uniqueness_keys) = 0
    THEN <<(<<"target">>), (<<"rules", "rule_type">>)>>
    ELSE schema.uniqueness_keys

\* The search filter of a plan.
PlanFilter(schema, templateName, paramsMap) ==
    [TemplateName |-> templateName,
     Parameters |-> BuildFilter(UniquenessKeys(schema), paramsMap, 1, EmptyParameters)]

Plan(err, action, existing, newRule) ==
    [err |-> err, action |-> action, existing |-> existing, newRule |-> newRule]

\* Service.PlanRuleCreation
PlanRuleCreation(kind, store, templateName, parameters) ==
    LET schema == GetSchema(templateName)
    IN  IF schema = NotFound THEN Plan("failed to get schema", "", NoRule, NoRule)
        ELSE IF ~Validate(schema, parameters) THEN Plan("validation failed", "", NoRule, NoRule)
        ELSE LET existingRules == SearchRules(kind, store,
                                              PlanFilter(schema, templateName, parameters))
                 newRule == Rule(0, templateName, parameters, 0, 0)
             IN  IF Len(existingRules) > 0
                 THEN Plan("", "update", existingRules[1], newRule)
                 ELSE Plan("", "create", NoRule, newRule)

\* A merge of the top-level keys only: a key of the new document replaces
\* the existing value, object or not.
MergeShallow(existing, new) ==
    Obj([k \in DOMAIN existing.obj \cup DOMAIN new.obj |->
            IF k \in DOMAIN new.obj THEN new.obj[k] ELSE existing.obj[k]])

\* mergo.Merge(&existing, new, WithOverride) on decoded JSON objects: maps are
\* merged key by key, any other value of the new document replaces the old.
RECURSIVE Merge(_, _)
Merge(existing, new) ==
    Obj([k \in DOMAIN existing.obj \cup DOMAIN new.obj |->
            IF k \notin DOMAIN new.obj THEN existing.obj[k]
            ELSE IF k \notin DOMAIN existing.obj THEN new.obj[k]
            ELSE IF IsObj(existing.obj[k]) /\ IsObj(new.obj[k])
                 THEN Merge(existing.obj[k], new.obj[k])
                 ELSE new.obj[k]])

\* The request body without "parameters" (len(parameters) = 0).
NoParameters == [none |-> TRUE]

\* The first record of a search result whose id differs from id, or NoRule.
RECURSIVE FirstOther(_, _, _)
FirstOther(existingRules, id, i) ==
    IF i > Len(existingRules) THEN NoRule
    ELSE IF existingRules[i].id # id THEN existingRules[i]
    ELSE FirstOther(existingRules, id, i + 1)

\* Service.PlanRuleUpdate
PlanRuleUpdate(kind, store, id, templateName, parameters) ==
    LET existingRule == GetRule(store, id)
    IN  IF existingRule = NotFound THEN Plan("failed to get existing rule", "", NoRule, NoRule)
        ELSE IF parameters # NoParameters /\ ~IsObj(parameters)
             THEN Plan("invalid parameters JSON", "", NoRule, NoRule)
        ELSE LET finalParams == IF parameters # NoParameters
                                THEN Merge(existingRule.parameters, parameters)
                                ELSE existingRule.parameters
                 schema == GetSchema(templateName)
             IN  IF schema = NotFound THEN Plan("failed to get schema", "", NoRule, NoRule)
                 ELSE IF ~Validate(schema, finalParams)
                      THEN Plan("validation failed", "", NoRule, NoRule)
                 ELSE LET existingRules == SearchRules(kind, store,
                                               PlanFilter(schema, templateName, finalParams))
                          other == FirstOther(existingRules, id, 1)
                          newRule == Rule(id, templateName, finalParams, 0, 0)
                      IN  IF other # NoRule THEN Plan("", "conflict", other, newRule)
                          ELSE Plan("", "update", NoRule, newRule)

----------------------------------------------------------------------------
(* The rule handlers of the API.                                           *)

\* The document CreateRule and PlanRule build for one item of "rules":
\* {target, common (when given), rules: [item]}.
singleRuleParams(params, ruleItem) ==
    IF Has(params, "common")
    THEN Obj([target |-> params.obj["target"], common |-> params.obj["common"],
              rules |-> Arr(<<ruleItem>>)])
    ELSE Obj([target |-> params.obj["target"], rules |-> Arr(<<ruleItem>>)])

\* An override that merges the submission into the existing parameters.
OverrideMerged(existing, templateName, singleRuleJSON) ==
    [existing EXCEPT !.parameters = Merge(@, singleRuleJSON), !.templateName = templateName]

\* The record CreateRule writes over a planned existing one: the existing
\* record with the submitted document and template name put in its place.
Override(existing, templateName, singleRuleJSON) ==
    [existing EXCEPT !.parameters = singleRuleJSON, !.templateName = templateName]

Result(status, store, ids, actions) ==
    [status |-> status, store |-> store, ids |-> ids, actions |-> actions]

\* The loop of RuleHandlers.CreateRule from item i on: plan, generate, then
\* update the planned existing record or create a new one.  An error returns
\* at once, with the store as the earlier items left it.
RECURSIVE CreateLoop(_, _, _, _, _, _, _, _, _)
CreateLoop(kind, store, nid, now, templateName, params, i, ids, actions) ==
    LET items == params.obj["rules"].arr
    IN  IF i > Len(items) THEN Result(200, store, ids, actions)
        ELSE LET singleRuleJSON == singleRuleParams(params, items[i])
                 plan == PlanRuleCreation(kind, store, templateName, singleRuleJSON)
             IN  IF plan.err # "" THEN Result(400, store, ids, actions)
                 ELSE IF GenerateRule(templateName, singleRuleJSON).err # "none"
                      THEN Result(400, store, ids, actions)
                 ELSE IF plan.action = "update"
                 THEN LET rule == Override(plan.existing, templateName, singleRuleJSON)
                          w == StoreUpdateRule(kind, store, rule.id, rule, now)
                      IN  IF w.err # "" THEN Result(500, store, ids, actions)
                          ELSE CreateLoop(kind, w.store, nid, now, templateName, params,
                                          i + 1, Append(ids, rule.id), Append(actions, "update"))
                 ELSE LET rule == [plan.newRule EXCEPT !.id = nid, !.createdAt = now,
                                                       !.updatedAt = now]
                          w == StoreCreateRule(kind, store, rule, now)
                      IN  IF w.err # "" THEN Result(500, store, ids, actions)
                          ELSE CreateLoop(kind, w.store, nid + 1, now, templateName, params,
                                          i + 1, Append(ids, rule.id), Append(actions, "create"))

\* The checks of CreateRule before its loop: the parameters decode into
\* {target, common, rules}, with a target and a non-empty rules array.
WellFormed(params) ==
    /\ IsObj(params)
    /\ Has(params, "target")
    /\ Has(params, "rules") /\ IsArr(params.obj["rules"])
    /\ Len(params.obj["rules"].arr) > 0

\* The cache after a request that looked up the schema (and, when it went on
\* to generate, the template) of templateName.
CacheSchema(templateName) ==
    IF templateName \in Names /\ repoSchemas[templateName] # NotFound
       /\ schemas[templateName] = NotCached
    THEN [schemas EXCEPT ![templateName] = repoSchemas[templateName]]
    ELSE schemas

CacheTemplate(templateName) ==
    IF templateName \in Names /\ repoTemplates[templateName] # NotFound
       /\ templates[templateName] = NotCached
    THEN [templates EXCEPT ![templateName] = repoTemplates[templateName]]
    ELSE templates

\* Whether GenerateRule gets as far as the template lookup.
ReachesTemplate(templateName, parameters) ==
    /\ GetSchema(templateName) # NotFound
    /\ Validate(GetSchema(templateName), parameters)

Response(op, status, ids, actions, existing) ==
    [op |-> op, status |-> status, ids |-> ids, actions |-> actions, existing |-> existing]

\* RuleHandlers.CreateRule
CreateRule(templateName, params) ==
    /\ clock < MaxClock
    /\ clock' = clock + 1
    /\ IF ~WellFormed(params)
       THEN /\ last' = Response("create", 400, <<>>, <<>>, NoRule)
            /\ UNCHANGED <<rules, nextId, schemas, templates>>
       ELSE LET r == CreateLoop(storeKind, rules, nextId, clock, templateName, params,
                                1, <<>>, <<>>)
                first == singleRuleParams(params, params.obj["rules"].arr[1])
            IN  /\ rules' = r.store
                /\ nextId' = nextId + Cardinality(Ids(r.store) \ Ids(rules))
                /\ schemas' = CacheSchema(templateName)
                /\ templates' = IF ReachesTemplate(templateName, first)
                                THEN CacheTemplate(templateName) ELSE templates
                /\ last' = Response("create", r.status, r.ids, r.actions, NoRule)
    /\ UNCHANGED <<storeKind, repoSchemas, repoTemplates, procVars>>

\* The template name an update request works with: the one it carries, or
\* else the stored record's.
TemplateNameOf(id, name) ==
    IF name = "" /\ GetRule(rules, id) # NotFound THEN GetRule(rules, id).templateName
    ELSE name

\* A conflict check that never fires.
ConflictIgnored(plan) == FALSE

\* The conflict check of UpdateRule on a plan.
Conflict(plan) == plan.action = "conflict"

\* RuleHandlers.UpdateRule
UpdateRule(id, name, parameters) ==
    /\ clock < MaxClock
    /\ clock' = clock + 1
    /\ LET existingRule == GetRule(rules, id)
           templateName == TemplateNameOf(id, name)
           plan == PlanRuleUpdate(storeKind, rules, id, templateName, parameters)
           planned == existingRule # NotFound /\ (parameters = NoParameters \/ IsObj(parameters))
       IN  IF name = "" /\ existingRule = NotFound
           THEN /\ last' = Response("update", 404, <<>>, <<>>, NoRule)
                /\ UNCHANGED <<rules, schemas, templates>>
           ELSE IF plan.err # ""
           THEN /\ last' = Response("update", 400, <<>>, <<>>, NoRule)
                /\ schemas' = IF planned THEN CacheSchema(templateName) ELSE schemas
                /\ UNCHANGED <<rules, templates>>
           ELSE IF Conflict(plan)
           THEN /\ last' = Response("update", 409, <<>>, <<plan.action>>, plan.existing)
                /\ schemas' = CacheSchema(templateName)
                /\ UNCHANGED <<rules, templates>>
           ELSE IF GenerateRule(templateName, plan.newRule.parameters).err # "none"
           THEN /\ last' = Response("update", 400, <<>>, <<plan.action>>, NoRule)
                /\ schemas' = CacheSchema(templateName)
                /\ templates' = CacheTemplate(templateName)
                /\ UNCHANGED rules
           ELSE LET w == StoreUpdateRule(storeKind, rules, id, plan.newRule, clock)
                IN  /\ rules' = w.store
                    /\ schemas' = CacheSchema(templateName)
                    /\ templates' = CacheTemplate(templateName)
                    /\ last' = Response("update", IF w.err # "" THEN 500 ELSE 200,
                                        <<id>>, <<plan.action>>, NoRule)
    /\ UNCHANGED <<storeKind, nextId, repoSchemas, repoTemplates, procVars>>

\* RuleHandlers.DeleteRule
DeleteRule(id) ==
    /\ clock < MaxClock
    /\ clock' = clock + 1
    /\ LET w == StoreDeleteRule(rules, id)
       IN  /\ rules' = w.store
           /\ last' = Response("delete", IF w.err # "" THEN 500 ELSE 204, <<>>, <<>>, NoRule)
    /\ UNCHANGED <<storeKind, nextId, repoSchemas, repoTemplates, schemas, templates, procVars>>

\* The loop of RuleHandlers.PlanRule from item i on.
RECURSIVE PlanLoop(_, _, _, _, _, _)
PlanLoop(kind, store, templateName, params, i, plans) ==
    LET items == params.obj["rules"].arr
    IN  IF i > Len(items) THEN [status |-> 200, plans |-> plans]
        ELSE LET plan == PlanRuleCreation(kind, store, templateName,
                                          singleRuleParams(params, items[i]))
             IN  IF plan.err # "" THEN [status |-> 400, plans |-> plans]
                 ELSE PlanLoop(kind, store, templateName, params, i + 1, Append(plans, plan))

\* A plan request that carries its plans out.
PlanRulePersisting(templateName, params) ==
    /\ WellFormed(params)
    /\ clock < MaxClock
    /\ LET r == CreateLoop(storeKind, rules, nextId, clock, templateName, params, 1, <<>>, <<>>)
       IN  /\ rules' = r.store
           /\ nextId' = nextId + Cardinality(Ids(r.store) \ Ids(rules))
           /\ last' = Response("plan", r.status, <<>>, r.actions, NoRule)
    /\ clock' = clock + 1
    /\ UNCHANGED <<storeKind, repoSchemas, repoTemplates, schemas, templates, procVars>>

\* RuleHandlers.PlanRule
PlanRule(templateName, params) ==
    /\ clock < MaxClock
    /\ clock' = clock + 1
    /\ IF ~WellFormed(params)
       THEN /\ last' = Response("plan", 400, <<>>, <<>>, NoRule)
            /\ UNCHANGED schemas
       ELSE LET r == PlanLoop(storeKind, rules, templateName, params, 1, <<>>)
            IN  /\ schemas' = CacheSchema(templateName)
                /\ last' = Response("plan", r.status, <<>>,
                                    [i \in 1..Len(r.plans) |-> r.plans[i].action],
                                    IF Len(r.plans) > 0 THEN r.plans[Len(r.plans)].existing
                                    ELSE NoRule)
    /\ UNCHANGED <<storeKind, rules, nextId, repoSchemas, repoTemplates, templates,
                   procVars>>

\* RuleHandlers.PlanUpdateRule
PlanUpdateRule(id, name, parameters) ==
    /\ clock < MaxClock
    /\ clock' = clock + 1
    /\ LET existingRule == GetRule(rules, id)
           templateName == TemplateNameOf(id, name)
           plan == PlanRuleUpdate(storeKind, rules, id, templateName, parameters)
           planned == existingRule # NotFound /\ (parameters = NoParameters \/ IsObj(parameters))
       IN  IF name = "" /\ existingRule = NotFound
           THEN /\ last' = Response("planUpdate", 404, <<>>, <<>>, NoRule)
                /\ UNCHANGED schemas
           ELSE IF plan.err # ""
           THEN /\ last' = Response("planUpdate", 400, <<>>, <<>>, NoRule)
                /\ schemas' = IF planned THEN CacheSchema(templateName) ELSE schemas
           ELSE /\ last' = Response("planUpdate", 200, <<>>, <<plan.action>>, plan.existing)
                /\ schemas' = CacheSchema(templateName)
    /\ UNCHANGED <<storeKind, rules, nextId, repoSchemas, repoTemplates, templates,
                   procVars>>

----------------------------------------------------------------------------
(* The template handlers of the API, as requests that overlap no other.    *)

\* A write that leaves the cached schema in place.
InvalidateSchemaSkipped(name) == schemas

\* CachingTemplateProvider.InvalidateSchema / InvalidateTemplate
InvalidateSchema(name) == [schemas EXCEPT ![name] = NotCached]

InvalidateTemplate(name) == [templates EXCEPT ![name] = NotCached]

\* TemplateHandlers.CreateSchema: the caching provider invalidates the entry,
\* then the wrapped provider upserts the content.
CreateSchema(name, content) ==
    /\ clock < MaxClock
    /\ schemas' = InvalidateSchema(name)
    /\ repoSchemas' = [repoSchemas EXCEPT ![name] = content]
    /\ clock' = clock + 1
    /\ last' = Response("createSchema", 200, <<>>, <<>>, NoRule)
    /\ UNCHANGED <<storeKind, rules, nextId, repoTemplates, templates, procVars>>

\* TemplateHandlers.CreateTemplate: a body that does not parse is refused.
CreateTemplate(name, content) ==
    /\ clock < MaxClock
    /\ clock' = clock + 1
    /\ IF ~content.parse
       THEN /\ last' = Response("createTemplate", 400, <<>>, <<>>, NoRule)
            /\ UNCHANGED <<repoTemplates, templates>>
       ELSE /\ templates' = InvalidateTemplate(name)
            /\ repoTemplates' = [repoTemplates EXCEPT ![name] = content]
            /\ last' = Response("createTemplate", 200, <<>>, <<>>, NoRule)
    /\ UNCHANGED <<storeKind, rules, nextId, repoSchemas, schemas, procVars>>

----------------------------------------------------------------------------
(* The requests of a run.                                                  *)

Target(ns) == Obj([namespace |-> Str(ns)])
TargetMetric(ns, m) == Obj([namespace |-> Str(ns), metric |-> Str(m)])
Item(ruleType) == Obj([rule_type |-> Str(ruleType)])
Submission(target, items) == Obj([target |-> target, rules |-> Arr(items)])
SubmissionCommon(target, severity, items) ==
    Obj([target |-> target, common |-> Obj([severity |-> Str(severity)]),
         rules |-> Arr(items)])

Submissions ==
    { Submission(Target("ns1"), <<Item("cpu")>>),
      Submission(Target("ns2"), <<Item("cpu")>>),
      Submission(Target("ns1"), <<Item("cpu"), Item("ram")>>),
      SubmissionCommon(Target("ns1"), "critical", <<Item("ram")>>),
      SubmissionCommon(Target("ns1"), "warning", <<Item("ram")>>),
      Submission(TargetMetric("ns2", "gone"), <<Item("ram")>>),
      Obj([rules |-> Arr(<<Item("cpu")>>)]) }

\* The parameters of an update request: none, or a partial document.
Patches ==
    { NoParameters,
      Obj([target |-> Target("ns2")]),
      Obj([target |-> Target("ns3")]),
      Obj([common |-> Obj([severity |-> Str("warning")])]) }

\* The template names requests carry: the known ones and one nobody created.
TemplateNames == Names \cup {"ghost"}

\* The template names update requests carry: none, or "k8s".
UpdateNames == {"", "k8s"}

\* The records update and delete requests address.
RuleIds == 1..2

SeedSchemas == [k8s |-> SchemaDefault, vm |-> SchemaNamespace]
SeedTemplates == [k8s |-> TemplateNamespace, vm |-> TemplateNamespace]
Uncached == [n \in Names |-> NotCached]
Procs == {"g1", "g2"}
NoCall == [none |-> TRUE]
NoResponse == Response("", 0, <<>>, <<>>, NoRule)

\* main(): one of the two rule stores, the caching provider around the seeded
\* template repository, nothing cached and nothing stored yet.
Init ==
    /\ storeKind \in {"mongo", "file"}
    /\ rules = <<>>
    /\ nextId = 1
    /\ clock = 1
    /\ repoSchemas = SeedSchemas
    /\ repoTemplates = SeedTemplates
    /\ schemas = Uncached
    /\ templates = Uncached
    /\ pc = [p \in Procs |-> "idle"]
    /\ call = [p \in Procs |-> NoCall]
    /\ last = NoResponse
    /\ history = <<>>

Next ==
    \/ \E t \in TemplateNames, params \in Submissions : CreateRule(t, params)
    \/ \E id \in RuleIds, t \in UpdateNames, patch \in Patches : UpdateRule(id, t, patch)
    \/ \E id \in RuleIds : DeleteRule(id)
    \/ \E t \in Names, params \in Submissions : PlanRule(t, params)
    \/ \E id \in RuleIds, t \in UpdateNames, patch \in Patches : PlanUpdateRule(id, t, patch)
    \/ \E content \in SchemaSet : CreateSchema("k8s", content)
    \/ \E content \in TemplateSet : CreateTemplate("k8s", content)

Spec == Init /\ [][Next]_vars

----------------------------------------------------------------------------
(* The caching template provider under concurrent requests.  Each request  *)
(* goroutine p makes one provider call at a time; a call is the sequence   *)
(* of its accesses to the two sync.Maps and to the wrapped provider, and   *)
(* the accesses of different goroutines interleave freely.                 *)

Kinds == {"schema", "template"}

Cache(kind) == IF kind = "schema" THEN schemas ELSE templates
Repo(kind) == IF kind = "schema" THEN repoSchemas ELSE repoTemplates

\* What a write call carries: a content to create, or NotFound for a delete.
Contents(kind) ==
    IF kind = "schema" THEN {SchemaDefault, SchemaNamespace, NotFound}
    ELSE {TemplateNamespace, TemplateSeverity, NotFound}

Call(op, kind, name, content, hit) ==
    [op |-> op, kind |-> kind, name |-> name, content |-> content, hit |-> hit]

\* The provider calls begun so far.
Started == Len(history) + Cardinality({p \in Procs : pc[p] # "idle"})

\* GetSchema / GetTemplate, first access: Load.  A hit returns the entry.
Load(p, kind, name) ==
    /\ pc[p] = "idle"
    /\ Started < MaxCalls
    /\ IF Cache(kind)[name] # NotCached
       THEN /\ history' = Append(history, Call("get", kind, name, Cache(kind)[name], TRUE))
            /\ UNCHANGED <<pc, call>>
       ELSE /\ pc' = [pc EXCEPT ![p] = "miss"]
            /\ call' = [call EXCEPT ![p] = Call("get", kind, name, NotFound, FALSE)]
            /\ UNCHANGED history
    /\ UNCHANGED <<ruleVars, repoSchemas, repoTemplates, schemas, templates>>

\* GetSchema / GetTemplate after a miss: the wrapped provider is read; its
\* error is returned without touching the cache.
ProviderGet(p) ==
    /\ pc[p] = "miss"
    /\ LET content == Repo(call[p].kind)[call[p].name]
       IN  IF content = NotFound
           THEN /\ pc' = [pc EXCEPT ![p] = "idle"]
                /\ call' = [call EXCEPT ![p] = NoCall]
                /\ history' = Append(history, call[p])
           ELSE /\ pc' = [pc EXCEPT ![p] = "fetched"]
                /\ call' = [call EXCEPT ![p].content = content]
                /\ UNCHANGED history
    /\ UNCHANGED <<ruleVars, repoSchemas, repoTemplates, schemas, templates>>

\* GetSchema / GetTemplate, last access: Store what was read, and return it.
Store(p) ==
    /\ pc[p] = "fetched"
    /\ schemas' = IF call[p].kind = "schema"
                  THEN [schemas EXCEPT ![call[p].name] = call[p].content] ELSE schemas
    /\ templates' = IF call[p].kind = "template"
                    THEN [templates EXCEPT ![call[p].name] = call[p].content] ELSE templates
    /\ pc' = [pc EXCEPT ![p] = "idle"]
    /\ call' = [call EXCEPT ![p] = NoCall]
    /\ history' = Append(history, call[p])
    /\ UNCHANGED <<ruleVars, repoSchemas, repoTemplates>>

\* CreateSchema / CreateTemplate / DeleteSchema / DeleteTemplate, first
\* access: the entry is deleted from the cache.
Invalidate(p, kind, name, content) ==
    /\ pc[p] = "idle"
    /\ Started < MaxCalls
    /\ schemas' = IF kind = "schema" THEN InvalidateSchema(name) ELSE schemas
    /\ templates' = IF kind = "template" THEN InvalidateTemplate(name) ELSE templates
    /\ pc' = [pc EXCEPT ![p] = "invalidated"]
    /\ call' = [call EXCEPT ![p] = Call("put", kind, name, content, FALSE)]
    /\ UNCHANGED <<ruleVars, repoSchemas, repoTemplates, history>>

\* ... second access: the wrapped provider writes (or deletes), and the call
\* returns.
ProviderWrite(p) ==
    /\ pc[p] = "invalidated"
    /\ repoSchemas' = IF call[p].kind = "schema"
                      THEN [repoSchemas EXCEPT ![call[p].name] = call[p].content]
                      ELSE repoSchemas
    /\ repoTemplates' = IF call[p].kind = "template"
                        THEN [repoTemplates EXCEPT ![call[p].name] = call[p].content]
                        ELSE repoTemplates
    /\ pc' = [pc EXCEPT ![p] = "idle"]
    /\ call' = [call EXCEPT ![p] = NoCall]
    /\ history' = Append(history, call[p])
    /\ UNCHANGED <<ruleVars, schemas, templates>>

\* Requests served concurrently.
NextCache ==
    \/ \E p \in Procs, kind \in Kinds, name \in Names : Load(p, kind, name)
    \/ \E p \in Procs : ProviderGet(p)
    \/ \E p \in Procs : Store(p)
    \/ \E p \in Procs, kind \in Kinds, name \in Names :
          \E content \in Contents(kind) : Invalidate(p, kind, name, content)
    \/ \E p \in Procs : ProviderWrite(p)

SpecCache == Init /\ [][NextCache]_vars

\* Requests served one after the other: a call begins only when no other is
\* in progress.
Quiet == \A p \in Procs : pc[p] = "idle"

NextSeq ==
    \/ \E p \in Procs, kind \in Kinds, name \in Names : Quiet /\ Load(p, kind, name)
    \/ \E p \in Procs : ProviderGet(p)
    \/ \E p \in Procs : Store(p)
    \/ \E p \in Procs, kind \in Kinds, name \in Names :
          \E content \in Contents(kind) : Quiet /\ Invalidate(p, kind, name, content)
    \/ \E p \in Procs : ProviderWrite(p)

SpecSeq == Init /\ [][NextSeq]_vars

----------------------------------------------------------------------------
(* Properties of the caching template provider.                            *)

\* A write or delete call on (kind, name) that has begun and not returned.
WriteInProgress(kind, name) ==
    \E p \in Procs : /\ pc[p] = "invalidated"
                     /\ call[p].kind = kind
                     /\ call[p].name = name

\* C1: under any interleaving of reads and writes through the caching
\* provider, once every write or delete of a name has returned, a read of that
\* name that starts now returns the repository's current content: the entry a
\* read would be served from the cache, if there is one, is that content.
C1_NoStalenessWindow ==
    \A kind \in Kinds, name \in Names :
       ~WriteInProgress(kind, name) =>
          Cache(kind)[name] \in {NotCached, Repo(kind)[name]}

\* history[i] is a write of `content` under (kind, name), not overwritten
\* before position j.
LastWrite(i, j, kind, name) ==
    /\ i < j
    /\ history[i].op = "put" /\ history[i].kind = kind /\ history[i].name = name
    /\ \A k \in (i + 1)..(j - 1) :
          ~(history[k].op = "put" /\ history[k].kind = kind /\ history[k].name = name)

\* C2: when the calls are made one after the other, a read returns what the
\* last write before it wrote; so after getSchema(name) returned and cached
\* v1 and createSchema(name, v2) completed, the next getSchema(name) returns v2.
C2_CacheCoherence ==
    \A i \in 1..Len(history), j \in 1..Len(history) :
       (history[j].op = "get" /\ LastWrite(i, j, history[j].kind, history[j].name))
          => history[j].content = history[i].content

\* A run get(name) = v1 (cached), createSchema(name, v2), get(name) = v2.
C2_Witness ==
    \E i \in 1..Len(history) :
       /\ i + 2 <= Len(history)
       /\ history[i].op = "get" /\ history[i].kind = "schema"
       /\ history[i].content = SchemaDefault
       /\ history[i + 1] = Call("put", "schema", history[i].name, SchemaNamespace, FALSE)
       /\ history[i + 2] = Call("get", "schema", history[i].name, SchemaNamespace, FALSE)

----------------------------------------------------------------------------
(* Properties of the rule handlers and the plan resolver.                  *)

\* A pipeline step the schema of templateName declares fails on parameters.
PipelineFails(templateName, parameters) == ValidateRule(templateName, parameters).step # ""

\* C3: when a pipeline step the schema declares (global or per item) fails
\* for a create or update submission, the submission is rejected and the rule
\* store is left as it was.
C3_PipelineFailureRejects ==
    [][ /\ \A t \in TemplateNames, params \in Submissions :
              (CreateRule(t, params) /\ WellFormed(params) /\ PipelineFails(t, params))
                 => (rules' = rules /\ last'.status # 200)
        /\ \A id \in RuleIds, t \in UpdateNames, patch \in Patches :
              LET name == TemplateNameOf(id, t)
                  plan == PlanRuleUpdate(storeKind, rules, id, name, patch)
              IN  (/\ UpdateRule(id, t, patch)
                   /\ plan.err = ""
                   /\ PipelineFails(name, plan.newRule.parameters))
                     => (rules' = rules /\ last'.status # 200) ]_vars

Namespace(doc) == doc.obj["target"].obj["namespace"].str
RuleType(doc) == doc.obj["rules"].arr[1].obj["rule_type"].str

\* C4: under a schema without uniqueness_keys, submitting again the target and
\* rule_type of a persisted record is planned as an update, and the plan's
\* existing record is the one with that target and rule_type.
C4_DefaultUniqueness ==
    \A i \in 1..Len(rules) :
       LET first == rules[i]
           t == first.templateName
           plan == PlanRuleCreation(storeKind, rules, t, first.parameters)
       IN  (GetSchema(t) # NotFound /\ GetSchema(t).uniqueness_keys = <<>>)
              => /\ plan.err = ""
                 /\ plan.action = "update"
                 /\ plan.existing.parameters.obj["target"] = first.parameters.obj["target"]
                 /\ RuleType(plan.existing.parameters) = RuleType(first.parameters)

\* The schema of template t has the uniqueness keys ["target.namespace"].
NamespaceKeyed(t) ==
    /\ GetSchema(t) # NotFound
    /\ GetSchema(t).uniqueness_keys = <<(<<"target", "namespace">>)>>

MoveTo(ns) == Obj([target |-> Target(ns)])

\* C5: with records A and B of one template keyed on target.namespace, in
\* different namespaces, the planned update of A's namespace to B's is a
\* conflict referencing a record other than A in that namespace, and the
\* planned update to a namespace no record of the template has is an update.
C5_UpdateConflict ==
    \A i \in 1..Len(rules), j \in 1..Len(rules) :
       LET A == rules[i]
           B == rules[j]
           t == A.templateName
       IN  (/\ i # j
            /\ B.templateName = t
            /\ NamespaceKeyed(t)
            /\ Namespace(A.parameters) # Namespace(B.parameters))
           => LET toB == PlanRuleUpdate(storeKind, rules, A.id, t,
                                        MoveTo(Namespace(B.parameters)))
                  toFree == PlanRuleUpdate(storeKind, rules, A.id, t, MoveTo("ns3"))
              IN  /\ toB.action = "conflict"
                  /\ toB.existing.id # A.id
                  /\ Namespace(toB.existing.parameters) = Namespace(B.parameters)
                  /\ (\A k \in 1..Len(rules) :
                         rules[k].templateName = t => Namespace(rules[k].parameters) # "ns3")
                       => toFree.action = "update"

\* C6: an update request planned as a conflict is answered 409 and writes
\* nothing: every record, the updated and the conflicting one included, is
\* as before.
C6_ConflictNoWrite ==
    [][ last'.op = "update" =>
          \A id \in RuleIds, t \in UpdateNames, patch \in Patches :
             LET plan == PlanRuleUpdate(storeKind, rules, id, TemplateNameOf(id, t), patch)
             IN  (UpdateRule(id, t, patch) /\ plan.err = "" /\ plan.action = "conflict")
                    => (rules' = rules /\ last'.status = 409) ]_vars

\* An update request has just been answered 409, naming the conflicting record.
C6_Witness ==
    /\ last.op = "update"
    /\ last.status = 409
    /\ last.existing # NoRule
    /\ last.existing.id \in Ids(rules)

\* C7: a create submission (of one item) that matches persisted records under
\* the uniqueness filter overrides the first match without merging: that
\* record then holds exactly the submitted document, every other record is as
\* before and none is added; a submission that matches nothing adds one
\* record, holding the submitted document.
C7_CreateOverrides ==
    [][ (last'.op = "create" /\ last'.status = 200 /\ Len(last'.actions) = 1) =>
          \A t \in TemplateNames, params \in Submissions :
             (CreateRule(t, params) /\ WellFormed(params)) =>
                LET doc == singleRuleParams(params, params.obj["rules"].arr[1])
                    matches == SearchRules(storeKind, rules, PlanFilter(GetSchema(t), t, doc))
                IN  IF Len(matches) > 0
                    THEN /\ Len(rules') = Len(rules)
                         /\ \A i \in 1..Len(rules) :
                               IF rules[i].id = matches[1].id
                               THEN rules'[i].id = rules[i].id /\ rules'[i].parameters = doc
                               ELSE rules'[i] = rules[i]
                    ELSE /\ Len(rules') = Len(rules) + 1
                         /\ SubSeq(rules', 1, Len(rules)) = rules
                         /\ rules'[Len(rules')].parameters = doc
                         /\ rules'[Len(rules')].id \notin Ids(rules) ]_vars

\* A create submission has just been carried out as an update of the only
\* record stored, which now holds a document without "common".
C7_Witness ==
    /\ last.op = "create"
    /\ last.status = 200
    /\ last.actions = <<"update">>
    /\ Len(rules) = 1
    /\ rules[1].id = last.ids[1]
    /\ ~Has(rules[1].parameters, "common")

\* C8: planning a creation or an update never creates, updates or deletes a
\* rule record, a schema or a template: the rule store and the template
\* repository are the same before and after a plan request.
C8_PlanningIsPure ==
    [][ last'.op \in {"plan", "planUpdate"}
           => UNCHANGED <<rules, repoSchemas, repoTemplates>> ]_vars

\* A plan request has been answered with plans while records are stored.
C8_Witness ==
    /\ last.op \in {"plan", "planUpdate"}
    /\ last.status = 200
    /\ last.actions \in {<<"update">>, <<"conflict">>}
    /\ Len(rules) > 0

\* The records a plan under template t may match: those of t (and the record
\* id being updated).
OfTemplate(t, id) == SelectSeq(rules, LAMBDA r : r.templateName = t \/ r.id = id)

\* C9: uniqueness is evaluated within one template name: the plan of a
\* submission under template t is the plan it would get were only the records
\* of t stored, and the record an update or conflict plan names is one of t.
C9_ScopedToTemplate ==
    /\ \A t \in Names, params \in Submissions :
          WellFormed(params) =>
             \A i \in 1..Len(params.obj["rules"].arr) :
                LET doc == singleRuleParams(params, params.obj["rules"].arr[i])
                    plan == PlanRuleCreation(storeKind, rules, t, doc)
                IN  /\ plan = PlanRuleCreation(storeKind, OfTemplate(t, 0), t, doc)
                    /\ plan.action = "update" => plan.existing.templateName = t
    /\ \A id \in RuleIds, t \in Names, patch \in Patches :
          LET plan == PlanRuleUpdate(storeKind, rules, id, t, patch)
          IN  /\ plan = PlanRuleUpdate(storeKind, OfTemplate(t, id), id, t, patch)
              /\ plan.action = "conflict" => plan.existing.templateName = t

\* A record of template "vm" in namespace ns1 is stored, template "k8s" is keyed
\* on target.namespace too, and a k8s submission for ns1 has been planned as a
\* creation.
C9_Witness ==
    /\ storeKind = "file"
    /\ repoSchemas["k8s"] = SchemaNamespace
    /\ \E i \in 1..Len(rules) : /\ rules[i].templateName = "vm"
                                /\ Namespace(rules[i].parameters) = "ns1"
    /\ last.op = "plan"
    /\ last.actions = <<"create">>
    /\ PlanRuleCreation(storeKind, rules, "k8s",
                        Submission(Target("ns1"), <<Item("cpu")>>)).action = "create"

\* C10: every record a create or update request writes holds a parameter
\* document with every property the schema of the record's template name
\* requires, as the repository holds that schema when the request is served.
C10_WrittenRecordsValidate ==
    [][ \A i \in 1..Len(rules') :
           (\A k \in 1..Len(rules) : rules[k] # rules'[i]) =>
              LET rule == rules'[i]
              IN  /\ rule.templateName \in Names
                  /\ repoSchemas[rule.templateName] # NotFound
                  /\ IsObj(rule.parameters)
                  /\ repoSchemas[rule.templateName].required
                        \subseteq DOMAIN rule.parameters.obj ]_vars

\* A record has just been written under a schema that requires "common".
C10_Witness ==
    /\ last.op \in {"create", "update"}
    /\ last.status = 200
    /\ repoSchemas["k8s"] = SchemaTarget
    /\ \E i \in 1..Len(rules) : /\ rules[i].templateName = "k8s"
                                /\ rules[i].id = last.ids[1]
                                /\ Has(rules[i].parameters, "common")

----------------------------------------------------------------------------
(* Properties of the template repository.                                  *)

\* C11: in every reachable state each template name resolves to a schema and
\* a render body, or to neither: no name has a schema without a body, or a
\* body without a schema.
C11_SchemaAndBodyTogether ==
    \A name \in Names :
       (repoSchemas[name] = NotFound) <=> (repoTemplates[name] = NotFound)

----------------------------------------------------------------------------
(* The aggregator: Service.GenerateVMAlertConfig on a list of records.     *)
(* A rendered body is a sequence of lines: the template's text, then one   *)
(* line per value it prints.                                               *)

\* A content put before the ones already in its group.
PrependContent(groups, name, content) ==
    IF name \in DOMAIN groups
    THEN [groups EXCEPT ![name] = <<content>> \o @]
    ELSE [n \in DOMAIN groups \cup {name} |->
             IF n = name THEN <<content>> ELSE groups[n]]

\* groups[name] = append(groups[name], ruleContent)
AppendContent(groups, name, content) ==
    IF name \in DOMAIN groups
    THEN [groups EXCEPT ![name] = Append(@, content)]
    ELSE [n \in DOMAIN groups \cup {name} |->
             IF n = name THEN <<content>> ELSE groups[n]]

\* A failure that aborts the aggregation.
RECURSIVE GroupLoopAborting(_, _, _)
GroupLoopAborting(rs, i, groups) ==
    IF i > Len(rs) THEN [err |-> "", groups |-> groups]
    ELSE LET g == GenerateRule(rs[i].templateName, rs[i].parameters)
         IN  IF g.err # "none" THEN [err |-> g.err, groups |-> groups]
             ELSE GroupLoopAborting(rs, i + 1,
                                    AppendContent(groups, rs[i].templateName, g.out))

\* The first loop of GenerateVMAlertConfig from record i on: a record that
\* fails to generate is logged and skipped.
RECURSIVE GroupLoop(_, _, _)
GroupLoop(rs, i, groups) ==
    IF i > Len(rs) THEN [err |-> "", groups |-> groups]
    ELSE LET g == GenerateRule(rs[i].templateName, rs[i].parameters)
         IN  IF g.err # "none" THEN GroupLoop(rs, i + 1, groups)
             ELSE GroupLoop(rs, i + 1, AppendContent(groups, rs[i].templateName, g.out))

\* strings.TrimSpace(line) != "": the lines of a body that are written.
WrittenLines(content) == SelectSeq(content, LAMBDA line : line # "" /\ line # " ")

\* The inner loop of the output: the written lines of the contents, in order.
RECURSIVE GroupLines(_, _)
GroupLines(contents, i) ==
    IF i > Len(contents) THEN <<>>
    ELSE WrittenLines(contents[i]) \o GroupLines(contents, i + 1)

\* The orders in which `for groupName := range groups` may visit the map.
Orders(S) ==
    {q \in [1..Cardinality(S) -> S] : \A i, j \in 1..Cardinality(S) : q[i] = q[j] => i = j}

\* The configuration written for the groups visited in the given order.
Config(groups, order) ==
    [i \in 1..Len(order) |->
        [name |-> order[i], rules |-> GroupLines(groups[order[i]], 1)]]

EmptyGroups == [n \in {} |-> <<>>]

\* Service.GenerateVMAlertConfig: the results it may return for a list.
GenerateVMAlertConfig(rs) ==
    LET r == GroupLoop(rs, 1, EmptyGroups)
    IN  IF r.err # "" THEN {[err |-> r.err, out |-> <<>>]}
        ELSE {[err |-> "", out |-> Config(r.groups, order)] :
                 order \in Orders(DOMAIN r.groups)}

\* The records a list is drawn from: two that generate under the seeded
\* templates, one whose namespace is blank, one without a target (validation
\* fails), one of a template nobody created (schema lookup fails), and one
\* without "common" (it fails to render under TemplateSeverity).
Records ==
    { Rule(1, "k8s", Submission(Target("ns1"), <<Item("cpu")>>), 1, 1),
      Rule(2, "vm", Submission(Target("ns2"), <<Item("cpu")>>), 1, 1),
      Rule(3, "k8s", Submission(Target(""), <<Item("cpu")>>), 1, 1),
      Rule(4, "k8s", Obj([rules |-> Arr(<<Item("cpu")>>)]), 1, 1),
      Rule(5, "ghost", Submission(Target("ns1"), <<Item("cpu")>>), 1, 1),
      Rule(6, "vm", SubmissionCommon(Target("ns3"), "critical", <<Item("ram")>>), 1, 1) }

MaxRecords == 3

RecordLists == UNION {[1..n -> Records] : n \in 0..MaxRecords}

\* The template repositories the lists are aggregated under.
Repositories ==
    { [s |-> SeedSchemas, t |-> SeedTemplates],
      [s |-> SeedSchemas, t |-> [k8s |-> TemplateNamespace, vm |-> TemplateSeverity]],
      [s |-> SeedSchemas, t |-> [k8s |-> TemplateNamespace, vm |-> NotFound]] }

InitAgg ==
    /\ storeKind = "mongo"
    /\ rules \in RecordLists
    /\ nextId = 1
    /\ clock = 1
    /\ \E repo \in Repositories : repoSchemas = repo.s /\ repoTemplates = repo.t
    /\ schemas = Uncached
    /\ templates = Uncached
    /\ pc = [p \in Procs |-> "idle"]
    /\ call = [p \in Procs |-> NoCall]
    /\ last = NoResponse
    /\ history = <<>>

\* The cache after the lookups of an aggregation.
CachedSchemas(rs) ==
    [n \in Names |->
        IF schemas[n] = NotCached /\ repoSchemas[n] # NotFound
           /\ \E i \in 1..Len(rs) : rs[i].templateName = n
        THEN repoSchemas[n] ELSE schemas[n]]

CachedTemplates(rs) ==
    [n \in Names |->
        IF templates[n] = NotCached /\ repoTemplates[n] # NotFound
           /\ \E i \in 1..Len(rs) : /\ rs[i].templateName = n
                                    /\ ReachesTemplate(n, rs[i].parameters)
        THEN repoTemplates[n] ELSE templates[n]]

\* One call of Service.GenerateVMAlertConfig on the list.
Aggregate ==
    /\ last = NoResponse
    /\ \E result \in GenerateVMAlertConfig(rules) :
          last' = [op |-> "vmalert", err |-> result.err, out |-> result.out]
    /\ schemas' = CachedSchemas(rules)
    /\ templates' = CachedTemplates(rules)
    /\ UNCHANGED <<storeKind, rules, nextId, clock, repoSchemas, repoTemplates, procVars>>

NextAgg == Aggregate

SpecAgg == InitAgg /\ [][NextAgg]_vars

----------------------------------------------------------------------------
(* Properties of the aggregator.                                           *)

\* Whether a record generates, and the lines its body contributes.
Generates(r) == GenerateRule(r.templateName, r.parameters).err = "none"
Body(r) == WrittenLines(GenerateRule(r.templateName, r.parameters).out)

\* q occurs in s as a run of consecutive lines.
OccursIn(q, s) ==
    \E k \in 0..(Len(s) - Len(q)) : \A i \in 1..Len(q) : s[k + i] = q[i]

RECURSIVE GeneratedLines(_, _)
GeneratedLines(rs, i) ==
    IF i > Len(rs) THEN 0
    ELSE (IF Generates(rs[i]) THEN Len(Body(rs[i])) ELSE 0) + GeneratedLines(rs, i + 1)

RECURSIVE OutputLines(_, _)
OutputLines(out, i) ==
    IF i > Len(out) THEN 0 ELSE Len(out[i].rules) + OutputLines(out, i + 1)

\* C12: aggregation is best-effort: the call returns no error, the body of
\* every record that generates is in the output under its template name, and
\* the records that fail to generate contribute nothing to it.
C12_BestEffortAggregation ==
    last.op = "vmalert" =>
       /\ last.err = ""
       /\ \A i \in 1..Len(rules) :
             Generates(rules[i]) =>
                \E g \in 1..Len(last.out) :
                   /\ last.out[g].name = rules[i].templateName
                   /\ OccursIn(Body(rules[i]), last.out[g].rules)
       /\ OutputLines(last.out, 1) = GeneratedLines(rules, 1)

\* Three records of which the second alone fails were aggregated.
C12_Witness ==
    /\ last.op = "vmalert"
    /\ Len(rules) = 3
    /\ Generates(rules[1]) /\ ~Generates(rules[2]) /\ Generates(rules[3])
    /\ Len(last.out) >= 1

\* The bodies of the records of one template that generate, in list order.
RECURSIVE BodiesOf(_, _, _)
BodiesOf(rs, name, i) ==
    IF i > Len(rs) THEN <<>>
    ELSE (IF rs[i].templateName = name /\ Generates(rs[i]) THEN Body(rs[i]) ELSE <<>>)
         \o BodiesOf(rs, name, i + 1)

\* C13: the groups of the output are keyed by template name, one group per
\* template name that has a generated record, and a group holds the bodies of
\* its records in the order of the records in the list.
C13_GroupedInRecordOrder ==
    last.op = "vmalert" =>
       /\ \A g, h \in 1..Len(last.out) : last.out[g].name = last.out[h].name => g = h
       /\ {last.out[g].name : g \in 1..Len(last.out)} =
             {rules[i].templateName : i \in {k \in 1..Len(rules) : Generates(rules[k])}}
       /\ \A g \in 1..Len(last.out) :
             last.out[g].rules = BodiesOf(rules, last.out[g].name, 1)

\* Two groups were written, one of them from two records with different
\* bodies.
C13_Witness ==
    /\ last.op = "vmalert"
    /\ Len(last.out) = 2
    /\ \E i, j \in 1..Len(rules) :
          /\ i < j
          /\ rules[i].templateName = rules[j].templateName
          /\ Generates(rules[i]) /\ Generates(rules[j])
          /\ Body(rules[i]) # Body(rules[j])

----------------------------------------------------------------------------
(* Properties of planning under custom uniqueness keys.                    *)

Severity(doc) ==
    IF Has(doc, "common") /\ Has(doc.obj["common"], "severity")
    THEN doc.obj["common"].obj["severity"].str ELSE ""

\* The submissions that differ only in common.severity.
SeveritySubmissions ==
    { SubmissionCommon(Target("ns1"), "critical", <<Item("ram")>>),
      SubmissionCommon(Target("ns1"), "warning", <<Item("ram")>>) }

\* C14: under uniqueness_keys ["target.namespace", "common.severity"], a
\* submission is planned as create whenever no stored record of the template
\* carries its namespace together with its severity; in particular when the
\* store holds the record of a submission that differs from it only in
\* common.severity.
C14_SeverityKeyedCreate ==
    \A t \in Names :
       GetSchema(t) = SchemaSeverity =>
          \A q \in SeveritySubmissions :
             (\A i \in 1..Len(rules) :
                 rules[i].templateName = t =>
                    \/ Namespace(rules[i].parameters) # Namespace(q)
                    \/ Severity(rules[i].parameters) # Severity(q))
             => LET plan == PlanRuleCreation(storeKind, rules, t, q)
                IN  plan.err = "" /\ plan.action = "create"

\* The first of the two was persisted, the second was then planned as create
\* and persisted beside it.
C14_Witness ==
    /\ GetSchema("k8s") = SchemaSeverity
    /\ last.op = "create" /\ last.status = 200 /\ last.actions = <<"create">>
    /\ Len(rules) = 2
    /\ {rules[1].parameters, rules[2].parameters} = SeveritySubmissions
    /\ storeKind = "file"

----------------------------------------------------------------------------
(* Properties of batch creation.                                           *)

\* C15: a successful create request with N rule items answers N ids, and the
\* ids name N separate stored records, the k-th holding the k-th item.
C15_OneRecordPerItem ==
    [][ (last'.op = "create" /\ last'.status = 200) =>
           \A t \in TemplateNames, params \in Submissions :
              (WellFormed(params) /\ CreateRule(t, params)) =>
                 LET items == params.obj["rules"].arr
                     ids == last'.ids
                 IN  /\ Len(ids) = Len(items)
                     /\ \A i, j \in 1..Len(ids) : ids[i] = ids[j] => i = j
                     /\ \A i \in 1..Len(ids) :
                           /\ ids[i] \in Ids(rules')
                           /\ GetRule(rules', ids[i]).parameters =
                                 singleRuleParams(params, items[i]) ]_vars

----------------------------------------------------------------------------
(* The merge of an update: mergo.Merge(&existingParams, newParams,         *)
(* mergo.WithOverride) in Service.PlanRuleUpdate, applied to pairs of      *)
(* parameter documents.                                                    *)

EmptyObject == Obj([k \in {} |-> Nil])

\* The values a key of a document carries: scalars (among them the empty
\* string, zero and null), arrays (among them the empty one) and objects, one
\* of them nested.
MergeValues ==
    { Str("a"), Str(""), Num(0), Nil,
      Arr(<<>>), Arr(<<Str("x")>>),
      EmptyObject,
      Obj([namespace |-> Str("ns1")]),
      Obj([namespace |-> Str("ns2"), metric |-> Arr(<<Str("m")>>)]),
      Obj([metric |-> Nil]),
      Obj([labels |-> Obj([team |-> Str("a")])]),
      Obj([labels |-> Obj([env |-> Str("b")]), namespace |-> Str("")]) }

MergeKeys == {"target", "rules"}

\* The documents: every key absent or carrying one of the values.
MergeDocs ==
    UNION { {Obj(f) : f \in [K -> MergeValues]} : K \in SUBSET MergeKeys }

InitMerge ==
    /\ storeKind = "mongo"
    /\ \E existing \in MergeDocs : rules = <<Rule(1, "k8s", existing, 1, 1)>>
    /\ nextId = 2
    /\ clock = 1
    /\ repoSchemas = SeedSchemas
    /\ repoTemplates = SeedTemplates
    /\ schemas = Uncached
    /\ templates = Uncached
    /\ pc = [p \in Procs |-> "idle"]
    /\ call = [p \in Procs |-> NoCall]
    /\ last = NoResponse
    /\ history = <<>>

\* The merge step of PlanRuleUpdate on the stored document and a new one.
MergeParameters(new) ==
    /\ last = NoResponse
    /\ last' = [op |-> "merge", new |-> new, merged |-> Merge(rules[1].parameters, new)]
    /\ UNCHANGED <<storeKind, rules, nextId, clock, repoSchemas, repoTemplates,
                   schemas, templates, procVars>>

NextMerge == \E new \in MergeDocs : MergeParameters(new)

SpecMerge == InitMerge /\ [][NextMerge]_vars

\* m is e with n laid over it: a key absent from n keeps e's value; a key whose
\* values in e and n are both objects carries their overlay, by the same rule;
\* any other key of n carries n's value.
RECURSIVE Overlaid(_, _, _)
Overlaid(e, n, m) ==
    /\ IsObj(m)
    /\ DOMAIN m.obj = DOMAIN e.obj \cup DOMAIN n.obj
    /\ \A k \in DOMAIN m.obj :
          IF k \notin DOMAIN n.obj THEN m.obj[k] = e.obj[k]
          ELSE IF k \in DOMAIN e.obj /\ IsObj(e.obj[k]) /\ IsObj(n.obj[k])
               THEN Overlaid(e.obj[k], n.obj[k], m.obj[k])
               ELSE m.obj[k] = n.obj[k]

----------------------------------------------------------------------------
(* Properties of a record's identity.                                      *)

\* C17: an update of a record, by the update handler or by the override path
\* of create, leaves the record's identifier, template name and creation
\* timestamp as they were.
C17_IdentityPreserved ==
    [][ last'.op \in {"update", "create"} =>
           \A i \in 1..Len(rules) :
              /\ rules[i].id \in Ids(rules')
              /\ GetRule(rules', rules[i].id).templateName = rules[i].templateName
              /\ GetRule(rules', rules[i].id).createdAt = rules[i].createdAt ]_vars

----------------------------------------------------------------------------
(* Create requests served concurrently.  A request goroutine plans its     *)
(* (single) rule item, searching the store, and then writes what it        *)
(* planned; the steps of different goroutines interleave freely.           *)

\* The submissions of the concurrent requests, of one rule item each.
RaceSubmissions ==
    { Submission(Target("ns1"), <<Item("cpu")>>),
      Submission(Target("ns1"), <<Item("ram")>>),
      Submission(Target("ns2"), <<Item("cpu")>>) }

Returned(op, status, action, id) ==
    [op |-> op, status |-> status, action |-> action, id |-> id]

\* A write that plans again on the store as it is now.
WritePlannedRechecked(kind, store, nid, now, c) ==
    LET plan == PlanRuleCreation(kind, store, c.templateName, c.params)
    IN  IF plan.action = "update"
        THEN LET rule == Override(plan.existing, c.templateName, c.params)
                 w == StoreUpdateRule(kind, store, rule.id, rule, now)
             IN  [err |-> w.err, store |-> w.store, id |-> rule.id, nid |-> nid]
        ELSE LET rule == [plan.newRule EXCEPT !.id = nid, !.createdAt = now,
                                              !.updatedAt = now]
                 w == StoreCreateRule(kind, store, rule, now)
             IN  [err |-> w.err, store |-> w.store, id |-> nid, nid |-> nid + 1]

\* The write of CreateRule for the plan made earlier: the planned existing
\* record is overridden, or the new record is given an id and created.
WritePlanned(kind, store, nid, now, c) ==
    IF c.plan.action = "update"
    THEN LET rule == Override(c.plan.existing, c.templateName, c.params)
             w == StoreUpdateRule(kind, store, rule.id, rule, now)
         IN  [err |-> w.err, store |-> w.store, id |-> rule.id, nid |-> nid]
    ELSE LET rule == [c.plan.newRule EXCEPT !.id = nid, !.createdAt = now,
                                            !.updatedAt = now]
             w == StoreCreateRule(kind, store, rule, now)
         IN  [err |-> w.err, store |-> w.store, id |-> nid, nid |-> nid + 1]

\* CreateRule up to its write: PlanRuleCreation, then GenerateRule.  A failure
\* returns 400.
PlanStep(p, templateName, params) ==
    /\ pc[p] = "idle"
    /\ Started < MaxCalls
    /\ LET plan == PlanRuleCreation(storeKind, rules, templateName, params)
           ok == plan.err = "" /\ GenerateRule(templateName, params).err = "none"
       IN  /\ IF ok
              THEN /\ pc' = [pc EXCEPT ![p] = "planned"]
                   /\ call' = [call EXCEPT ![p] = [op |-> "create",
                                                   templateName |-> templateName,
                                                   params |-> params, plan |-> plan]]
                   /\ UNCHANGED history
              ELSE /\ history' = Append(history, Returned("create", 400, "", 0))
                   /\ UNCHANGED <<pc, call>>
           /\ schemas' = CacheSchema(templateName)
           /\ templates' = IF ReachesTemplate(templateName, params) /\ plan.err = ""
                           THEN CacheTemplate(templateName) ELSE templates
    /\ UNCHANGED <<ruleVars, repoSchemas, repoTemplates>>

\* CreateRule from its write on: the store is written and the request returns.
WriteStep(p) ==
    /\ pc[p] = "planned"
    /\ LET w == WritePlanned(storeKind, rules, nextId, clock, call[p])
       IN  /\ rules' = w.store
           /\ nextId' = w.nid
           /\ history' = Append(history,
                                Returned("create", IF w.err # "" THEN 500 ELSE 200,
                                         call[p].plan.action, w.id))
    /\ pc' = [pc EXCEPT ![p] = "idle"]
    /\ call' = [call EXCEPT ![p] = NoCall]
    /\ UNCHANGED <<storeKind, clock, last, repoSchemas, repoTemplates, schemas, templates>>

NextRace ==
    \/ \E p \in Procs, t \in Names, params \in RaceSubmissions : PlanStep(p, t, params)
    \/ \E p \in Procs : WriteStep(p)

SpecRace == Init /\ [][NextRace]_vars

\* C18: planning and writing are not transactional: a request that planned a
\* create persists a new record whatever the store holds when it writes, so
\* two concurrent submissions with the same uniqueness-key values, both
\* planned before either wrote, leave two records with those values.
C18_PlanThenWriteUnguarded ==
    [][ \A p \in Procs :
           (pc[p] = "planned" /\ pc'[p] = "idle" /\ call[p].plan.action = "create") =>
              /\ Len(rules') = Len(rules) + 1
              /\ rules'[Len(rules')].parameters = call[p].params
              /\ rules'[Len(rules')].templateName = call[p].templateName ]_vars

\* On the file store, under uniqueness_keys ["target.namespace"], two requests
\* were both planned as create and both persisted: two records of the template
\* carry the same namespace.
C18_Witness ==
    /\ storeKind = "file"
    /\ Len(rules) = 2
    /\ rules[1].templateName = "vm" /\ rules[2].templateName = "vm"
    /\ Namespace(rules[1].parameters) = Namespace(rules[2].parameters)
    /\ Len(history) = 2
    /\ \A i \in 1..2 : history[i].status = 200 /\ history[i].action = "create"

----------------------------------------------------------------------------
(* The pipeline processor on its own: PipelineProcessor.Execute applied to *)
(* the pipelines and the datasource of a schema and a parameter document.  *)

Condition(property, value) == [property |-> property, value |-> value]

\* The conditions of a step: none, rule_type = "cpu", rule_type = 1.
Conditions ==
    {NoCondition, Condition("rule_type", Str("cpu")), Condition("rule_type", Num(1))}

\* The metric_name templates of a step: two literals and a field chain.
MetricNames == {[lit |-> "up"], [lit |-> "gone"], [path |-> <<"target", "metric">>]}

StepsNamed(name) ==
    {MetricStep(name, cond, metric) : cond \in Conditions, metric \in MetricNames}

\* Pipelines of one or two steps, named by their position.
PipelineSet ==
    {<<s>> : s \in StepsNamed("s1")}
       \cup {<<s, t>> : s \in StepsNamed("s1"), t \in StepsNamed("s2")}

Datasources == {Prometheus, NoDatasource, [type |-> "graphite"]}

\* The parameter documents: rule_type "cpu", "ram", absent, the number 1, and
\* the list ["cpu"]; a target metric the backend holds, or one it does not.
PipelineParams ==
    { Obj([rule_type |-> Str("cpu"), target |-> TargetMetric("ns1", "cpu_seconds")]),
      Obj([rule_type |-> Arr(<<Str("cpu")>>), target |-> TargetMetric("ns1", "cpu_seconds")]),
      Obj([rule_type |-> Str("cpu"), target |-> TargetMetric("ns1", "gone")]),
      Obj([rule_type |-> Str("ram"), target |-> TargetMetric("ns1", "cpu_seconds")]),
      Obj([rule_type |-> Num(1), target |-> TargetMetric("ns1", "cpu_seconds")]),
      Obj([target |-> TargetMetric("ns1", "cpu_seconds")]) }

InitPipe ==
    /\ storeKind = "mongo"
    /\ \E params \in PipelineParams : rules = <<Rule(1, "k8s", params, 1, 1)>>
    /\ nextId = 2
    /\ clock = 1
    /\ \E pipes \in PipelineSet, ds \in Datasources :
          repoSchemas = [SeedSchemas EXCEPT
                            !["k8s"] = Schema({"target"}, <<>>, ds, pipes, <<>>)]
    /\ repoTemplates = SeedTemplates
    /\ schemas = Uncached
    /\ templates = Uncached
    /\ pc = [p \in Procs |-> "idle"]
    /\ call = [p \in Procs |-> NoCall]
    /\ last = NoResponse
    /\ history = <<>>

\* One call of PipelineProcessor.Execute: the pipelines of the schema on the
\* parameter document.
ExecutePipelines ==
    /\ last = NoResponse
    /\ LET schema == repoSchemas["k8s"]
           r == Execute(schema.pipelines, schema.datasource, rules[1].parameters, 1)
       IN  last' = [op |-> "execute", err |-> r.err, step |-> r.step,
                    metric |-> r.metric, ran |-> r.ran]
    /\ UNCHANGED <<storeKind, rules, nextId, clock, repoSchemas, repoTemplates,
                   schemas, templates, procVars>>

NextPipe == ExecutePipelines

SpecPipe == InitPipe /\ [][NextPipe]_vars

----------------------------------------------------------------------------
(* Properties of the pipeline processor.                                   *)

\* The pipelines and the parameter document of the call.
Pipes == repoSchemas["k8s"].pipelines
PipeParams == rules[1].parameters
Ran == {last.ran[i] : i \in 1..Len(last.ran)}

\* The processor got as far as step k: no earlier step failed.
Reached(k) ==
    last.err = "" \/ \E j \in k..Len(Pipes) : Pipes[j].name = last.step

\* The parameters carry the condition's property with the condition's value.
ConditionMet(c, params) == Has(params, c.property) /\ params.obj[c.property] = c.value

\* C19: a step with a condition executes when the parameters carry the named
\* property with the condition's value; when the property is absent or its
\* value differs the step is skipped, no error is reported for it, and the
\* next step is processed.
C19_ConditionGatesStep ==
    last.op = "execute" =>
       \A k \in 1..Len(Pipes) :
          (Pipes[k].condition # NoCondition /\ Reached(k)) =>
             IF ConditionMet(Pipes[k].condition, PipeParams)
             THEN Pipes[k].name \in Ran
             ELSE /\ Pipes[k].name \notin Ran
                  /\ last.step # Pipes[k].name
                  /\ (k < Len(Pipes) /\ (\/ Pipes[k + 1].condition = NoCondition
                                         \/ ConditionMet(Pipes[k + 1].condition, PipeParams)))
                        => Pipes[k + 1].name \in Ran

\* A step conditioned on rule_type = "cpu" was skipped for rule_type "ram", and
\* the step after it ran; nothing failed.
C19_Witness ==
    /\ last.op = "execute"
    /\ Len(Pipes) = 2
    /\ Pipes[1].condition = Condition("rule_type", Str("cpu"))
    /\ Pipes[1].metric_name = [lit |-> "gone"]
    /\ Has(PipeParams, "rule_type")
    /\ PipeParams.obj["rule_type"] = Str("ram")
    /\ last.ran = <<"s2">>
    /\ last.err = ""

SupportedDatasource ==
    /\ repoSchemas["k8s"].datasource # NoDatasource
    /\ repoSchemas["k8s"].datasource.type \in {"prometheus", "victoriametrics", "thanos"}

\* C20: a validate_metric_exists step that executes against a supported
\* datasource succeeds when the backend holds a series of the rendered metric
\* name, and fails the pipeline with a "not found" error naming that metric
\* when it holds none.
C20_MetricMustExist ==
    last.op = "execute" =>
       \A k \in 1..Len(Pipes) :
          (Pipes[k].name \in Ran /\ SupportedDatasource) =>
             LET m == renderString(Pipes[k].metric_name, PipeParams)
             IN  ~m.err =>
                    IF m.val \in Series
                    THEN last.step # Pipes[k].name
                    ELSE /\ last.step = Pipes[k].name
                         /\ last.err = "metric not found"
                         /\ last.metric = m.val

\* A first step found its metric; a second one, whose metric name is rendered
\* from the parameters, found no series and failed naming the metric.
C20_Witness ==
    /\ last.op = "execute"
    /\ last.ran = <<"s1", "s2">>
    /\ Pipes[2].metric_name = [path |-> <<"target", "metric">>]
    /\ last.step = "s2"
    /\ last.err = "metric not found"
    /\ last.metric = "gone"

----------------------------------------------------------------------------
(* Rule generation on its own: GenerateRule called repeatedly through the  *)
(* caching provider, with writes to the template repository in between.    *)

MaxGenerations == 4

\* The single-rule parameter documents GenerateRule is called with.
GenerateParams ==
    { Submission(Target("ns1"), <<Item("cpu")>>),
      Submission(Target("ns2"), <<Item("cpu")>>),
      Submission(Str("ns1"), <<Item("cpu")>>),
      Obj([rules |-> Arr(<<Item("cpu")>>)]) }

\* The repository as the seeder or an operator left it: the body of "k8s" is
\* any text, parseable or not.
InitGenerate ==
    /\ storeKind = "file"
    /\ rules = <<>>
    /\ nextId = 1
    /\ clock = 1
    /\ repoSchemas = SeedSchemas
    /\ repoTemplates \in {[SeedTemplates EXCEPT !["k8s"] = t] : t \in TemplateSet}
    /\ schemas = Uncached
    /\ templates = Uncached
    /\ pc = [p \in Procs |-> "idle"]
    /\ call = [p \in Procs |-> NoCall]
    /\ last = NoResponse
    /\ history = <<>>

\* One call of Service.GenerateRule; the caching provider keeps what it loaded.
Generate(templateName, parameters) ==
    /\ Len(history) < MaxGenerations
    /\ history' = Append(history, [op |-> "generate", name |-> templateName,
                                   parameters |-> parameters,
                                   res |-> GenerateRule(templateName, parameters)])
    /\ schemas' = CacheSchema(templateName)
    /\ templates' = IF ReachesTemplate(templateName, parameters)
                    THEN CacheTemplate(templateName) ELSE templates
    /\ UNCHANGED <<ruleVars, repoSchemas, repoTemplates, pc, call>>

\* CachingTemplateProvider.CreateTemplate / DeleteTemplate: invalidate, then
\* write through to the repository (NotFound for a delete).
WriteTemplate(name, content) ==
    /\ Len(history) < MaxGenerations
    /\ templates' = InvalidateTemplate(name)
    /\ repoTemplates' = [repoTemplates EXCEPT ![name] = content]
    /\ history' = Append(history, [op |-> "write", name |-> name])
    /\ UNCHANGED <<ruleVars, repoSchemas, schemas, pc, call>>

NextGenerate ==
    \/ \E t \in Names, parameters \in GenerateParams : Generate(t, parameters)
    \/ \E content \in {NotFound, TemplateSeverity} : WriteTemplate("vm", content)

SpecGenerate == InitGenerate /\ [][NextGenerate]_vars

ChainFails(parameters, path) ==
    ~(Has(parameters, path[1]) /\ IsObj(parameters.obj[path[1]]))

----------------------------------------------------------------------------
\* The value a record's parameters hold at a uniqueness key.
KeyValue(rule, key) == getValueByPath(rule.parameters, key, 1)

\* C23: template "vm" keeps the schema it was seeded with (uniqueness key
\* target.namespace) through every run of requests; no two stored records of
\* "vm" agree on the values of all its uniqueness keys.
C23_NoDuplicateKeys ==
    repoSchemas["vm"] = SeedSchemas["vm"] =>
       \A i, j \in 1..Len(rules) :
          (i < j /\ rules[i].templateName = "vm" /\ rules[j].templateName = "vm")
             => \E k \in 1..Len(SeedSchemas["vm"].uniqueness_keys) :
                   KeyValue(rules[i], SeedSchemas["vm"].uniqueness_keys[k])
                      # KeyValue(rules[j], SeedSchemas["vm"].uniqueness_keys[k])

\* The position of the step named n in the declared pipeline.
StepIndex(n) == CHOOSE k \in 1..Len(Pipes) : Pipes[k].name = n

\* C24: the steps that ran did so in declaration order; a step ran only after
\* every earlier step had succeeded or had been skipped by its condition; and
\* when a step failed it is the last one that ran, no later step ran, and the
\* pipeline's error is that step's failure under that step's name.
C24_OrderedShortCircuit ==
    last.op = "execute" =>
       /\ \A a, b \in 1..Len(last.ran) :
             a < b => StepIndex(last.ran[a]) < StepIndex(last.ran[b])
       /\ \A k \in 1..Len(Pipes) :
             Pipes[k].name \in Ran =>
                \A j \in 1..(k - 1) :
                   \/ Pipes[j].name \in Ran /\ last.step # Pipes[j].name
                   \/ /\ Pipes[j].condition # NoCondition
                      /\ ~ConditionMet(Pipes[j].condition, PipeParams)
       /\ last.err # "" =>
             /\ Len(last.ran) > 0
             /\ last.step = last.ran[Len(last.ran)]
             /\ \A k \in 1..Len(Pipes) : k > StepIndex(last.step) => Pipes[k].name \notin Ran
             /\ last.err = RunValidateMetricExists(repoSchemas["k8s"].datasource, PipeParams,
                                                   Pipes[StepIndex(last.step)]).err

\* The first of two unconditional steps failed: the second, whose metric
\* exists, did not run.
C24_Witness ==
    /\ last.op = "execute"
    /\ Len(Pipes) = 2
    /\ Pipes[2].condition = NoCondition
    /\ Pipes[2].metric_name = [lit |-> "up"]
    /\ SupportedDatasource
    /\ last.ran = <<"s1">>
    /\ last.step = "s1"
    /\ last.err = "metric not found"

----------------------------------------------------------------------------
(* Service.ValidateRule on its own: the item pipelines of a schema applied *)
(* to a submission whose items carry fields of their own.                  *)

\* An item of rule type "ram" with a metric of its own.
ItemMetric(m) == Obj([rule_type |-> Str("ram"), metric |-> Str(m)])

\* The same with a "target" of its own, which collides with the shared one.
ItemTarget(m, t) ==
    Obj([rule_type |-> Str("ram"), metric |-> Str(m), target |-> Obj([metric |-> Str(t)])])

\* Submissions of one or two such items under a shared target metric; every
\* metric is one the backend holds ("up") or one it does not ("gone").
ItemSubmissions ==
    LET values == {"up", "gone"}
        items == {ItemMetric(m) : m \in values}
                    \cup {ItemTarget(m, t) : m \in values, t \in values}
        lists == {<<a>> : a \in items}
                    \cup {<<a, b>> : a \in items,
                                     b \in {ItemMetric("up"), ItemTarget("up", "gone")}}
    IN  {Submission(TargetMetric("ns1", m), l) : m \in values, l \in lists}

\* Item steps that read the shared field chain .target.metric or the item's
\* own field .metric.
ItemSteps(name) ==
    {MetricStep(name, NoCondition, [path |-> p]) : p \in {<<"target", "metric">>, <<"metric">>}}

ItemPipelines ==
    {<<s>> : s \in ItemSteps("s1")} \cup {<<s, t>> : s \in ItemSteps("s1"), t \in ItemSteps("s2")}

InitItems ==
    /\ storeKind = "mongo"
    /\ \E params \in ItemSubmissions : rules = <<Rule(1, "k8s", params, 1, 1)>>
    /\ nextId = 2
    /\ clock = 1
    /\ \E pipes \in ItemPipelines :
          repoSchemas = [SeedSchemas EXCEPT
                            !["k8s"] = Schema({"target", "rules"}, <<>>, Prometheus, <<>>,
                                              <<[const |-> "ram", pipelines |-> pipes]>>)]
    /\ repoTemplates = SeedTemplates
    /\ schemas = Uncached
    /\ templates = Uncached
    /\ pc = [p \in Procs |-> "idle"]
    /\ call = [p \in Procs |-> NoCall]
    /\ last = NoResponse
    /\ history = <<>>

\* One call of Service.ValidateRule on the submission.
ValidateSubmission ==
    /\ last = NoResponse
    /\ LET r == ValidateRule("k8s", rules[1].parameters)
       IN  last' = [op |-> "validate", err |-> r.err, step |-> r.step,
                    metric |-> IF r.err = "metric not found" THEN r.metric ELSE ""]
    /\ schemas' = CacheSchema("k8s")
    /\ UNCHANGED <<storeKind, rules, nextId, clock, repoSchemas, repoTemplates,
                   templates, procVars>>

NextItems == ValidateSubmission

SpecItems == InitItems /\ [][NextItems]_vars

\* The submission, its items and the item steps of the call.
Root == rules[1].parameters
RootItems == Root.obj["rules"].arr
ItemPipes == repoSchemas["k8s"].oneOf[1].pipelines

\* What a step reading the field chain `path` sees for an item: the item's
\* field when the item has one of that name, the shared one otherwise.
Seen(item, path) ==
    LET top == IF path[1] \in DOMAIN item.obj THEN item.obj[path[1]] ELSE Root.obj[path[1]]
    IN  IF Len(path) = 1 THEN top.str ELSE top.obj[path[2]].str

\* Step k of item i looks for a metric the backend does not hold.
Misses(i, k) == Seen(RootItems[i], ItemPipes[k].metric_name.path) \notin Series

\* (i, k) comes before (j, l) in the order items and their steps are processed.
Before(i, k, j, l) == i < j \/ (i = j /\ k < l)

\* C25: every item step looks up the metric its field chain names in the
\* overlay of the item on the shared fields: validation fails at the first
\* item step whose overlaid value names a missing metric, naming that value,
\* and succeeds when no item step's overlaid value does.
C25_ItemOverlaysShared ==
    last.op = "validate" =>
       LET pairs == (1..Len(RootItems)) \X (1..Len(ItemPipes))
           missing == {p \in pairs : Misses(p[1], p[2])}
       IN  IF missing = {}
           THEN last.err = ""
           ELSE LET first == CHOOSE p \in missing :
                                \A q \in missing : q = p \/ Before(p[1], p[2], q[1], q[2])
                IN  /\ last.err = "metric not found"
                    /\ last.step = ItemPipes[first[2]].name
                    /\ last.metric = Seen(RootItems[first[1]], ItemPipes[first[2]].metric_name.path)

\* An item with a target of its own: the step reading .metric saw the item's
\* metric "up", the step reading .target.metric saw the item's target metric
\* "gone" and not the shared "up".
C25_Witness ==
    /\ last.op = "validate"
    /\ Len(RootItems) = 1
    /\ Root.obj["target"] = TargetMetric("ns1", "up")
    /\ RootItems[1] = ItemTarget("up", "gone")
    /\ Len(ItemPipes) = 2
    /\ ItemPipes[1].metric_name.path = <<"metric">>
    /\ ItemPipes[2].metric_name.path = <<"target", "metric">>
    /\ last.err = "metric not found"
    /\ last.step = "s2"
    /\ last.metric = "gone"

\* C26: a step whose condition names a property that holds a list executes
\* when the list's first element equals, by type, the condition's value.
C26_FirstElementOfList ==
    last.op = "execute" =>
       \A k \in 1..Len(Pipes) :
          (/\ Pipes[k].condition # NoCondition
           /\ Reached(k)
           /\ Has(PipeParams, Pipes[k].condition.property)
           /\ IsArr(PipeParams.obj[Pipes[k].condition.property])
           /\ Len(PipeParams.obj[Pipes[k].condition.property].arr) > 0
           /\ PipeParams.obj[Pipes[k].condition.property].arr[1] = Pipes[k].condition.value)
          => Pipes[k].name \in Ran

----------------------------------------------------------------------------
(* The filter construction of a plan on its own: the uniqueness keys of a  *)
(* schema applied to submissions whose target has fields of several kinds. *)

\* Targets: a namespace, an optional second string field, an optional number
\* field, and an optional nested object of labels (one or two levels deep).
FilterTargets ==
    LET labels == { Obj([app |-> Str("web")]),
                    Obj([app |-> Str("web"), tier |-> Obj([name |-> Str("front")])]) }
        base == {Obj([namespace |-> Str(ns)]) : ns \in {"ns1", "ns2"}}
        withCluster == base \cup {Obj(Put(t.obj, "cluster", Str("c1"))) : t \in base}
        withReplicas == withCluster \cup {Obj(Put(t.obj, "replicas", Num(3))) : t \in withCluster}
    IN  withReplicas
           \cup {Obj(Put(t.obj, "labels", l)) : t \in withReplicas, l \in labels}

FilterSubmissions == {Submission(t, <<Item("cpu")>>) : t \in FilterTargets}

InitFilter ==
    /\ storeKind = "file"
    /\ \E params \in FilterSubmissions : rules = <<Rule(1, "k8s", params, 1, 1)>>
    /\ nextId = 2
    /\ clock = 1
    /\ \E schema \in SchemaSet : repoSchemas = [SeedSchemas EXCEPT !["k8s"] = schema]
    /\ repoTemplates = SeedTemplates
    /\ schemas = Uncached
    /\ templates = Uncached
    /\ pc = [p \in Procs |-> "idle"]
    /\ call = [p \in Procs |-> NoCall]
    /\ last = NoResponse
    /\ history = <<>>

\* Step 4 of PlanRuleCreation: the search filter for the submission.
ConstructFilter ==
    /\ last = NoResponse
    /\ last' = [op |-> "filter",
                filter |-> PlanFilter(repoSchemas["k8s"], "k8s", rules[1].parameters)]
    /\ UNCHANGED <<storeKind, rules, nextId, clock, repoSchemas, repoTemplates,
                   schemas, templates, procVars>>

NextFilter == ConstructFilter

SpecFilter == InitFilter /\ [][NextFilter]_vars

\* The leaf string fields under v, each with its path from `prefix`.
RECURSIVE Leaves(_, _)
Leaves(v, prefix) ==
    IF IsStr(v) THEN {<<prefix, v.str>>}
    ELSE IF IsObj(v)
         THEN UNION {Leaves(v.obj[k], Append(prefix, k)) : k \in DOMAIN v.obj}
         ELSE {}

\* C27: under the uniqueness key "target" alone, the filter's entries are
\* exactly the leaf string fields nested under the submission's target, each
\* keyed by its dot-path and holding its value.
C27_TargetLeaves ==
    (last.op = "filter" /\ repoSchemas["k8s"].uniqueness_keys = <<(<<"target">>)>>) =>
       LET leaves == Leaves(rules[1].parameters.obj["target"], <<"target">>)
       IN  /\ DOMAIN last.filter.Parameters = {l[1] : l \in leaves}
           /\ \A l \in leaves : last.filter.Parameters[l[1]] = l[2]

----------------------------------------------------------------------------
(* Batch creation on its own: create requests for a template whose schema  *)
(* constrains each item of "rules".                                        *)

\* Submissions of one or two items: items that satisfy the schema, and one
\* that lacks its threshold.
BatchSubmissions ==
    LET withThreshold(ruleType) ==
            Obj([rule_type |-> Str(ruleType), threshold |-> Num(80)])
        items == {withThreshold("cpu"), withThreshold("ram"), Item("ram")}
    IN  {Submission(Target(ns), l) :
            ns \in {"ns1", "ns2"},
            l \in {<<a>> : a \in items} \cup {<<a, b>> : a, b \in items}}

InitBatch ==
    /\ storeKind \in {"mongo", "file"}
    /\ rules = <<>>
    /\ nextId = 1
    /\ clock = 1
    /\ repoSchemas = [SeedSchemas EXCEPT !["k8s"] = SchemaItems]
    /\ repoTemplates = SeedTemplates
    /\ schemas = Uncached
    /\ templates = Uncached
    /\ pc = [p \in Procs |-> "idle"]
    /\ call = [p \in Procs |-> NoCall]
    /\ last = NoResponse
    /\ history = <<>>

NextBatch == \E params \in BatchSubmissions : CreateRule("k8s", params)

SpecBatch == InitBatch /\ [][NextBatch]_vars

\* C28: a create request that is answered with an error leaves the rule store
\* as it found it.
C28_AllOrNothing ==
    [][(clock' = clock + 1 /\ last'.op = "create" /\ last'.status # 200)
          => rules' = rules]_vars

----------------------------------------------------------------------------
(* Listing and the aggregate feed: RuleStore.ListRules of both stores, the *)
(* list handler and the feed handler, over a store that already holds      *)
(* records.                                                                *)

MaxFeeds == 2
MaxOffset == 2
MaxLimit == 2

\* The large limit GetVMAlertConfig passes.
FeedLimit == 10000

Min(a, b) == IF a < b THEN a ELSE b

\* MongoStore.ListRules(ctx, offset, limit): Find with SetSkip(offset) and
\* SetLimit(limit); the driver reads a limit of 0 as no limit.
MongoListRules(store, offset, limit) ==
    IF offset >= Len(store) THEN <<>>
    ELSE IF limit = 0 THEN SubSeq(store, offset + 1, Len(store))
    ELSE SubSeq(store, offset + 1, Min(offset + limit, Len(store)))

\* FileStore.ListRules(ctx, limit, offset): rules[offset:end] of the files read.
FileListRules(store, limit, offset) ==
    LET total == Len(store)
    IN  IF offset >= total THEN <<>>
        ELSE SubSeq(store, offset + 1, Min(offset + limit, total))

\* A call h.ruleStore.ListRules(ctx, a, b) through the RuleStore interface,
\* whose parameters are (offset, limit): each store binds the two arguments
\* by position.
StoreListRules(kind, store, a, b) ==
    IF kind = "file" THEN FileListRules(store, a, b) ELSE MongoListRules(store, a, b)

\* The stores the process starts on: up to three persisted records, of two
\* templates.
StoredRecords ==
    << Rule(1, "k8s", Submission(Target("ns1"), <<Item("cpu")>>), 1, 1),
       Rule(2, "vm", Submission(Target("ns2"), <<Item("cpu")>>), 1, 1),
       Rule(3, "k8s", Submission(Target("ns3"), <<Item("ram")>>), 1, 1) >>

InitFeed ==
    /\ storeKind \in {"mongo", "file"}
    /\ \E n \in 0..Len(StoredRecords) : rules = SubSeq(StoredRecords, 1, n)
    /\ nextId = 4
    /\ clock = 1
    /\ repoSchemas = SeedSchemas
    /\ repoTemplates = SeedTemplates
    /\ schemas = Uncached
    /\ templates = Uncached
    /\ pc = [p \in Procs |-> "idle"]
    /\ call = [p \in Procs |-> NoCall]
    /\ last = NoResponse
    /\ history = <<>>

\* RuleHandlers.ListRules: the page the store returns for (Offset, Limit).
ListRules(offset, limit) ==
    /\ last' = [op |-> "list", offset |-> offset, limit |-> limit,
                records |-> StoreListRules(storeKind, rules, offset, limit)]
    /\ UNCHANGED <<storeKind, rules, nextId, clock, repoSchemas, repoTemplates,
                   schemas, templates, procVars>>

\* RuleHandlers.GetVMAlertConfig: list with offset 0 and the large limit, then
\* aggregate what the store returned.
GetVMAlertConfig ==
    /\ Len(history) < MaxFeeds
    /\ LET listed == StoreListRules(storeKind, rules, 0, FeedLimit)
       IN  /\ \E result \in GenerateVMAlertConfig(listed) :
                 /\ last' = [op |-> "feed", records |-> listed,
                             err |-> result.err, out |-> result.out]
                 /\ history' = Append(history, [op |-> "feed", records |-> listed,
                                                out |-> result.out])
           /\ schemas' = CachedSchemas(listed)
           /\ templates' = CachedTemplates(listed)
    /\ UNCHANGED <<storeKind, rules, nextId, clock, repoSchemas, repoTemplates, pc, call>>

NextFeed ==
    \/ \E offset \in 0..MaxOffset, limit \in 1..MaxLimit : ListRules(offset, limit)
    \/ GetVMAlertConfig

SpecFeed == InitFeed /\ [][NextFeed]_vars

\* The records at positions offset .. offset+limit-1 of the store.
Page(store, offset, limit) ==
    [i \in 1..(IF offset >= Len(store) THEN 0 ELSE Min(limit, Len(store) - offset)) |->
        store[offset + i]]

\* C29: on either store, a list request returns the records at positions
\* offset up to offset+limit-1, and the feed handler hands every persisted
\* record to the aggregator.
C29_ListIsAPage ==
    /\ last.op = "list" => last.records = Page(rules, last.offset, last.limit)
    /\ last.op = "feed" => last.records = rules

\* C30: two feed requests that aggregate the same record list under the
\* unchanged template repository return the same document, groups in the
\* same order.
C30_DeterministicDocument ==
    \A i, j \in 1..Len(history) :
       history[i].records = history[j].records => history[i].out = history[j].out

====
